---- MODULE Spec2Model ----
(***************************************************************************)
(* Board-control core of the bladeRF2 driver (bladerf2.c): the bring-up    *)
(* state machine, band / antenna-switch / RF-port selection, module        *)
(* enable/disable and the low-level accessors, as a state machine whose    *)
(* actions are the driver's operations.                                    *)
(*                                                                         *)
(* Conventions.                                                            *)
(*  - Frequencies are counted in kHz (every table constant of the source   *)
(*    is a whole number of kHz; 6000e6 Hz does not fit TLC's integers).    *)
(*  - A C function f(dev, ...) is an operator f(w, ..., failAt) over the   *)
(*    "world" w (board data + hardware) that returns [w, status].  The     *)
(*    world carries the log w.calls of the collaborator calls made by the  *)
(*    operation in progress; the failAt-th collaborator call fails.        *)
(***************************************************************************)
EXTENDS Integers, Sequences, FiniteSets, TLC

(***************************************************************************)
(* Status codes (libbladeRF.h RETCODES) and errno values.                  *)
(***************************************************************************)
BLADERF_ERR_UNEXPECTED  == -1
BLADERF_ERR_RANGE       == -2
BLADERF_ERR_INVAL       == -3
BLADERF_ERR_MEM         == -4
BLADERF_ERR_IO          == -5
BLADERF_ERR_TIMEOUT     == -6
BLADERF_ERR_NODEV       == -7
BLADERF_ERR_UNSUPPORTED == -8
BLADERF_ERR_UPDATE_FPGA == -12
BLADERF_ERR_UPDATE_FW   == -13
BLADERF_ERR_WOULD_BLOCK == -18
BLADERF_ERR_NOT_INIT    == -19

EIO       == 5
EAGAIN    == 11
ENOMEM    == 12
EFAULT    == 14
ENODEV    == 19
EINVAL    == 22
ETIMEDOUT == 110

(***************************************************************************)
(* Board state (struct bladerf2_board_data.state).                         *)
(***************************************************************************)
STATE_UNINITIALIZED   == 0
STATE_FIRMWARE_LOADED == 1
STATE_FPGA_LOADED     == 2
STATE_INITIALIZED     == 3

(***************************************************************************)
(* Channels and directions (libbladeRF.h): RX(i) = 2i, TX(i) = 2i + 1.     *)
(***************************************************************************)
BLADERF_RX == 0
BLADERF_TX == 1
Directions == {BLADERF_RX, BLADERF_TX}
Channels   == 0 .. 3
(* ch >> 1: the front end's sub-channel of a channel.                      *)
SubChannels == {0, 1}
SubChannel(ch) == ch \div 2

_is_tx(ch) == ch % 2 = BLADERF_TX

(***************************************************************************)
(* RFFE control register layout.                                           *)
(***************************************************************************)
RFFE_CONTROL_RESET_N       == 0
RFFE_CONTROL_ENABLE        == 1
RFFE_CONTROL_TXNRX         == 2
RFFE_CONTROL_EN_AGC        == 3
RFFE_CONTROL_SYNC_IN       == 4
RFFE_CONTROL_RX_BIAS_EN    == 5
RFFE_CONTROL_RX_SW_SHIFT   == 6
RFFE_CONTROL_TX_BIAS_EN    == 10
RFFE_CONTROL_TX_SW_SHIFT   == 11
RFFE_CONTROL_SPDT_MASK     == 15
RFFE_CONTROL_SPDT_SHUTDOWN == 0
RFFE_CONTROL_SPDT_LOWBAND  == 10
RFFE_CONTROL_SPDT_HIGHBAND == 5

(* Bit arithmetic on the unsigned register value.                          *)
Pow2(n) == 2 ^ n
TestBit(reg, n) == (reg \div Pow2(n)) % 2 = 1
SetBit(reg, n) == IF TestBit(reg, n) THEN reg ELSE reg + Pow2(n)
ClearBit(reg, n) == IF TestBit(reg, n) THEN reg - Pow2(n) ELSE reg
GetField(reg, shift) == (reg \div Pow2(shift)) % (RFFE_CONTROL_SPDT_MASK + 1)
(* A field write whose mask is one bit too wide.                           *)
PutField_Wide(reg, shift, v) ==
    (reg - ((reg \div Pow2(shift)) % (2 * (RFFE_CONTROL_SPDT_MASK + 1)))
               * Pow2(shift)) + v * Pow2(shift)

(* reg &= ~(MASK << shift); reg |= v << shift                              *)
PutField(reg, shift, v) ==
    (reg - GetField(reg, shift) * Pow2(shift)) + v * Pow2(shift)

(***************************************************************************)
(* AD9361 RF port ids (enum rx_port_sel / tx_port_sel, in table order).    *)
(***************************************************************************)
A_BALANCED == 0
B_BALANCED == 1
C_BALANCED == 2
TXA == 0
TXB == 1

(***************************************************************************)
(* Gain control modes: enum bladerf_gain_mode, and enum rf_gain_ctrl_mode  *)
(* of the front end in the order of bladerf2_rx_gain_mode_map.             *)
(***************************************************************************)
BLADERF_GAIN_DEFAULT        == 0
BLADERF_GAIN_MGC            == 1
BLADERF_GAIN_FASTATTACK_AGC == 2
BLADERF_GAIN_SLOWATTACK_AGC == 3
BLADERF_GAIN_HYBRID_AGC     == 4

RF_GAIN_MGC            == 0
RF_GAIN_FASTATTACK_AGC == 1
RF_GAIN_SLOWATTACK_AGC == 2
RF_GAIN_HYBRID_AGC     == 3

(***************************************************************************)
(* Correction kinds (bladerf_correction, in the order of the tables) and   *)
(* the correction register tables.  Registers go by their names.           *)
(***************************************************************************)
BLADERF_CORR_DCOFF_I == 0
BLADERF_CORR_DCOFF_Q == 1
BLADERF_CORR_PHASE   == 2
BLADERF_CORR_GAIN    == 3
Corrections == BLADERF_CORR_DCOFF_I .. BLADERF_CORR_GAIN

CorrEntry(low, high, shift) == [reg |-> <<low, high>>, shift |-> shift]

(* ad9361_correction_reg_table[ch].corr[corr], at ch + 1 and corr + 1.     *)
ad9361_correction_reg_table ==
    << \* BLADERF_CHANNEL_RX(0)
       << CorrEntry("0", "0", 0),
          CorrEntry("0", "0", 0),
          CorrEntry("REG_RX1_INPUT_A_PHASE_CORR",
                    "REG_RX1_INPUT_BC_PHASE_CORR", 6),
          CorrEntry("REG_RX1_INPUT_A_GAIN_CORR",
                    "REG_RX1_INPUT_BC_PHASE_CORR", 6) >>,
       \* BLADERF_CHANNEL_TX(0)
       << CorrEntry("REG_TX1_OUT_1_OFFSET_I", "REG_TX1_OUT_2_OFFSET_I", 5),
          CorrEntry("REG_TX1_OUT_1_OFFSET_Q", "REG_TX1_OUT_2_OFFSET_Q", 5),
          CorrEntry("REG_TX1_OUT_1_PHASE_CORR",
                    "REG_TX1_OUT_2_PHASE_CORR", 6),
          CorrEntry("REG_TX1_OUT_1_GAIN_CORR",
                    "REG_TX1_OUT_2_GAIN_CORR", 6) >>,
       \* BLADERF_CHANNEL_RX(1)
       << CorrEntry("0", "0", 0),
          CorrEntry("0", "0", 0),
          CorrEntry("REG_RX2_INPUT_A_PHASE_CORR",
                    "REG_RX2_INPUT_BC_PHASE_CORR", 6),
          CorrEntry("REG_RX2_INPUT_A_GAIN_CORR",
                    "REG_RX2_INPUT_BC_PHASE_CORR", 6) >>,
       \* BLADERF_CHANNEL_TX(1)
       << CorrEntry("REG_TX2_OUT_1_OFFSET_I", "REG_TX2_OUT_2_OFFSET_I", 5),
          CorrEntry("REG_TX2_OUT_1_OFFSET_Q", "REG_TX2_OUT_2_OFFSET_Q", 5),
          CorrEntry("REG_TX2_OUT_1_PHASE_CORR",
                    "REG_TX2_OUT_2_PHASE_CORR", 6),
          CorrEntry("REG_TX2_OUT_1_GAIN_CORR",
                    "REG_TX2_OUT_2_GAIN_CORR", 6) >> >>

DcoffRegs(top, bot) == [reg_top |-> top, reg_bot |-> bot]

(* ad9361_correction_rx_dcoff_reg_table[ch][i][is_q], at ch \div 2 + 1,    *)
(* i + 1 and is_q + 1 (the table has entries for the RX channels only).    *)
ad9361_correction_rx_dcoff_reg_table ==
    << \* Channel 1
       << << DcoffRegs("REG_INPUT_A_OFFSETS_1", "REG_RX1_INPUT_A_OFFSETS"),
             DcoffRegs("REG_RX1_INPUT_A_OFFSETS",
                       "REG_RX1_INPUT_A_Q_OFFSET") >>,
          << DcoffRegs("REG_INPUT_BC_OFFSETS_1", "REG_RX1_INPUT_BC_OFFSETS"),
             DcoffRegs("REG_RX1_INPUT_BC_OFFSETS",
                       "REG_RX1_INPUT_BC_Q_OFFSET") >> >>,
       \* Channel 2
       << << DcoffRegs("REG_RX2_INPUT_A_I_OFFSET", "REG_RX2_INPUT_A_OFFSETS"),
             DcoffRegs("REG_RX2_INPUT_A_OFFSETS",
                       "REG_INPUT_A_OFFSETS_1") >>,
          << DcoffRegs("REG_RX2_INPUT_BC_I_OFFSET",
                       "REG_RX2_INPUT_BC_OFFSETS"),
             DcoffRegs("REG_RX2_INPUT_BC_OFFSETS",
                       "REG_INPUT_BC_OFFSETS_1") >> >> >>

(* ad9361_correction_force_bit[ch >> 1][corr][i], at each index + 1.       *)
ad9361_correction_force_bit ==
    << << <<2, 6>>, <<2, 6>>, <<0, 4>>, <<0, 4>> >>,
       << <<3, 7>>, <<3, 7>>, <<1, 5>>, <<1, 5>> >> >>

(* The front-end registers the correction code reads and writes.           *)
CorrRegs ==
    {ad9361_correction_reg_table[c][k].reg[i] :
         c \in {2, 4}, k \in 1 .. 4, i \in 1 .. 2}
    \cup {ad9361_correction_reg_table[c][k].reg[i] :
              c \in {1, 3}, k \in 3 .. 4, i \in 1 .. 2}
    \cup {ad9361_correction_rx_dcoff_reg_table[c][i][q].reg_top :
              c \in 1 .. 2, i \in 1 .. 2, q \in 1 .. 2}
    \cup {ad9361_correction_rx_dcoff_reg_table[c][i][q].reg_bot :
              c \in 1 .. 2, i \in 1 .. 2, q \in 1 .. 2}
    \cup {"REG_TX_FORCE_BITS", "REG_FORCE_BITS"}

(***************************************************************************)
(* Bands, ranges and the static tables.                                    *)
(***************************************************************************)
BAND_SHUTDOWN == 0
BAND_LOW      == 1
BAND_HIGH     == 2

(* struct bladerf_range; scale is the rational num/den (1 or 0.001).       *)
Range(mn, mx, st, num, den) ==
    [min |-> mn, max |-> mx, step |-> st, num |-> num, den |-> den]

bladerf2_rx_frequency_range == Range(70000, 6000000, 2, 1, 1)
bladerf2_tx_frequency_range == Range(70000, 6000000, 2, 1, 1)

bladerf2_rx_range_band_map ==
    << [band |-> BAND_LOW,  range |-> Range(70000, 3000000, 2, 1, 1)],
       [band |-> BAND_HIGH, range |-> Range(3000000, 6000000, 2, 1, 1)] >>

bladerf2_tx_range_band_map ==
    << [band |-> BAND_LOW,  range |-> Range(46875, 3000000, 2, 1, 1)],
       [band |-> BAND_HIGH, range |-> Range(3000000, 6000000, 2, 1, 1)] >>

(* The RX table with the ports of the two bands exchanged.                 *)
bladerf2_rx_band_port_map_Swapped ==
    << [band |-> BAND_SHUTDOWN, spdt |-> RFFE_CONTROL_SPDT_SHUTDOWN,
        ad9361_port |-> 0],
       [band |-> BAND_LOW, spdt |-> RFFE_CONTROL_SPDT_LOWBAND,
        ad9361_port |-> A_BALANCED],
       [band |-> BAND_HIGH, spdt |-> RFFE_CONTROL_SPDT_HIGHBAND,
        ad9361_port |-> B_BALANCED] >>

bladerf2_rx_band_port_map ==
    << [band |-> BAND_SHUTDOWN, spdt |-> RFFE_CONTROL_SPDT_SHUTDOWN,
        ad9361_port |-> 0],
       [band |-> BAND_LOW, spdt |-> RFFE_CONTROL_SPDT_LOWBAND,
        ad9361_port |-> B_BALANCED],
       [band |-> BAND_HIGH, spdt |-> RFFE_CONTROL_SPDT_HIGHBAND,
        ad9361_port |-> A_BALANCED] >>

bladerf2_tx_band_port_map ==
    << [band |-> BAND_SHUTDOWN, spdt |-> RFFE_CONTROL_SPDT_SHUTDOWN,
        ad9361_port |-> 0],
       [band |-> BAND_LOW, spdt |-> RFFE_CONTROL_SPDT_LOWBAND,
        ad9361_port |-> TXB],
       [band |-> BAND_HIGH, spdt |-> RFFE_CONTROL_SPDT_HIGHBAND,
        ad9361_port |-> TXA] >>

(* The "not found" result of a table scan (a null pointer in the source).  *)
NullEntry == [band |-> -1, spdt |-> 0, ad9361_port |-> 0]

(***************************************************************************)
(* Helpers.                                                                *)
(***************************************************************************)
(* A range that leaves its upper limit out.                                *)
_is_within_range_HalfOpen(range, value) ==
    /\ value * range.den >= range.min * range.num
    /\ value * range.den < range.max * range.num

(* value / scale >= min  &&  value / scale <= max                          *)
_is_within_range(range, value) ==
    /\ value * range.den >= range.min * range.num
    /\ value * range.den <= range.max * range.num

(* Index of the first entry of a table that satisfies P, 0 if none.        *)
FirstIndex(table, P(_)) ==
    LET hits == {i \in 1 .. Len(table) : P(table[i])}
    IN  IF hits = {} THEN 0
        ELSE CHOOSE i \in hits : \A j \in hits : i <= j

_get_band_by_frequency(ch, frequency) ==
    LET band_map == IF _is_tx(ch) THEN bladerf2_tx_range_band_map
                    ELSE bladerf2_rx_range_band_map
        Hit(e) == _is_within_range(e.range, frequency)
        i == FirstIndex(band_map, Hit)
    IN  IF i = 0 THEN BAND_SHUTDOWN ELSE band_map[i].band

(* A lookup that goes by the frequency alone.                              *)
_get_band_port_map_IgnoreEnabled(ch, enabled, frequency) ==
    LET band == _get_band_by_frequency(ch, frequency)
        port_map == IF _is_tx(ch) THEN bladerf2_tx_band_port_map
                    ELSE bladerf2_rx_band_port_map
        Hit(e) == e.band = band
        i == FirstIndex(port_map, Hit)
    IN  IF i = 0 THEN NullEntry ELSE port_map[i]

_get_band_port_map(ch, enabled, frequency) ==
    LET band == IF enabled THEN _get_band_by_frequency(ch, frequency)
                ELSE BAND_SHUTDOWN
        port_map == IF _is_tx(ch) THEN bladerf2_tx_band_port_map
                    ELSE bladerf2_rx_band_port_map
        Hit(e) == e.band = band
        i == FirstIndex(port_map, Hit)
    IN  IF i = 0 THEN NullEntry ELSE port_map[i]

SwShift(ch) == IF _is_tx(ch) THEN RFFE_CONTROL_TX_SW_SHIFT
               ELSE RFFE_CONTROL_RX_SW_SHIFT

(* Returns [reg, status].                                                  *)
_set_spdt_bits(reg, ch, enabled, frequency) ==
    LET port_map == _get_band_port_map(ch, enabled, frequency)
    IN  IF port_map = NullEntry
        THEN [reg |-> reg, status |-> BLADERF_ERR_INVAL]
        ELSE [reg |-> PutField(reg, SwShift(ch), port_map.spdt),
              status |-> 0]

EnableBit(ch) == IF _is_tx(ch) THEN RFFE_CONTROL_TXNRX
                 ELSE RFFE_CONTROL_ENABLE

_is_rffe_channel_enabled(reg, ch) == TestBit(reg, EnableBit(ch))

errno_ad9361_to_bladerf(err) ==
    CASE err = EIO       -> BLADERF_ERR_IO
      [] err = EAGAIN    -> BLADERF_ERR_WOULD_BLOCK
      [] err = ENOMEM    -> BLADERF_ERR_MEM
      [] err = EFAULT    -> BLADERF_ERR_UNEXPECTED
      [] err = ENODEV    -> BLADERF_ERR_NODEV
      [] err = EINVAL    -> BLADERF_ERR_INVAL
      [] err = ETIMEDOUT -> BLADERF_ERR_TIMEOUT
      [] OTHER           -> BLADERF_ERR_UNEXPECTED

(***************************************************************************)
(* The world: board data (state, capabilities, sync handles), the RF front *)
(* end (phy), the FPGA's RFFE control register, the device lock, and the   *)
(* log of the collaborator calls of the operation in progress.  k counts   *)
(* the calls that can fail; the failAt-th of them fails.                   *)
(***************************************************************************)
Call(fn, a, b) == [fn |-> fn, a |-> a, b |-> b]

Log(w, c) == [w EXCEPT !.calls = Append(@, c)]

(* Log a call that can fail, counting it.                                  *)
Issue(w, c) == [w EXCEPT !.calls = Append(@, c), !.k = @ + 1]

Fail(w, failAt) == w.k + 1 = failAt

(* What a function hands back: the world it leaves, its return value and   *)
(* the value stored through its output pointer.                            *)
RetVal(w, status, val) == [w |-> w, status |-> status, val |-> val]

Ret(w, status) == RetVal(w, status, 0)

(* Status a failing transport backend call returns.                        *)
BackendErr == BLADERF_ERR_IO

(* Status a failing front-end (libad9361) call returns: a negative errno.  *)
PhyErr == 0 - EIO

(* RETURN_ERROR_AD9361: the status is handed to the mapping as it is.      *)
RETURN_ERROR_AD9361(status) == errno_ad9361_to_bladerf(status)

(* A state check that lets through the state just below the required one.  *)
CHECK_BOARD_STATE_OffByOne(w, required) == w.state < required - 1

(* _CHECK_BOARD_STATE: TRUE when the check makes the caller return.        *)
CHECK_BOARD_STATE(w, required) == w.state < required

(* "if (status < 0) { RETURN_ERROR_STATUS(...); }" and what follows it.    *)
Try(r, K(_)) == IF r.status < 0 THEN Ret(r.w, r.status) ELSE K(r)

(* "if (status != 0) { return status; }" and what follows it.              *)
TryNz(r, K(_)) == IF r.status # 0 THEN Ret(r.w, r.status) ELSE K(r)

(* "if (status < 0) { RETURN_ERROR_AD9361(...); }" and what follows it.    *)
TryAd(r, K(_)) ==
    IF r.status < 0 THEN Ret(r.w, RETURN_ERROR_AD9361(r.status)) ELSE K(r)

(* "return 0;"                                                             *)
Done(r) == Ret(r.w, 0)

(***************************************************************************)
(* Collaborators.  A failing call leaves the collaborator's state as it    *)
(* was.                                                                    *)
(***************************************************************************)
rffe_control_read(w, failAt) ==
    IF Fail(w, failAt)
    THEN Ret(Issue(w, Call("rffe_control_read", 0, 0)), BackendErr)
    ELSE RetVal(Issue(w, Call("rffe_control_read", 0, 0)), 0, w.rffe)

rffe_control_write(w, reg, failAt) ==
    IF Fail(w, failAt)
    THEN Ret(Issue(w, Call("rffe_control_write", reg, 0)), BackendErr)
    ELSE Ret([Issue(w, Call("rffe_control_write", reg, 0))
                 EXCEPT !.rffe = reg], 0)

backend_enable_module(w, dir, enable, failAt) ==
    Ret(Issue(w, Call("enable_module", dir, IF enable THEN 1 ELSE 0)),
        IF Fail(w, failAt) THEN BackendErr ELSE 0)

(* ad9361_set_tx_rf_port_output / ad9361_set_rx_rf_port_input              *)
ad9361_set_rf_port(w, tx, port, failAt) ==
    IF Fail(w, failAt)
    THEN Ret(Issue(w, Call(IF tx THEN "ad9361_set_tx_rf_port_output"
                           ELSE "ad9361_set_rx_rf_port_input", port, 0)),
             PhyErr)
    ELSE IF tx
    THEN Ret([Issue(w, Call("ad9361_set_tx_rf_port_output", port, 0))
                 EXCEPT !.phy.tx_port = port], 0)
    ELSE Ret([Issue(w, Call("ad9361_set_rx_rf_port_input", port, 0))
                 EXCEPT !.phy.rx_port = port], 0)

(* ad9361_set_tx_lo_freq / ad9361_set_rx_lo_freq                           *)
ad9361_set_lo_freq(w, tx, frequency, failAt) ==
    IF Fail(w, failAt)
    THEN Ret(Issue(w, Call(IF tx THEN "ad9361_set_tx_lo_freq"
                           ELSE "ad9361_set_rx_lo_freq", frequency, 0)),
             PhyErr)
    ELSE IF tx
    THEN Ret([Issue(w, Call("ad9361_set_tx_lo_freq", frequency, 0))
                 EXCEPT !.phy.tx_lo = frequency], 0)
    ELSE Ret([Issue(w, Call("ad9361_set_rx_lo_freq", frequency, 0))
                 EXCEPT !.phy.rx_lo = frequency], 0)

(* ad9361_get_tx_lo_freq / ad9361_get_rx_lo_freq                           *)
ad9361_get_lo_freq(w, tx, failAt) ==
    IF Fail(w, failAt)
    THEN Ret(Issue(w, Call(IF tx THEN "ad9361_get_tx_lo_freq"
                           ELSE "ad9361_get_rx_lo_freq", 0, 0)), PhyErr)
    ELSE RetVal(Issue(w, Call(IF tx THEN "ad9361_get_tx_lo_freq"
                              ELSE "ad9361_get_rx_lo_freq", 0, 0)), 0,
                IF tx THEN w.phy.tx_lo ELSE w.phy.rx_lo)

(***************************************************************************)
(* Streaming engine (streaming/sync.c).  sync_init creates the handle;     *)
(* a failing sync_init leaves no handle.  sync_deinit cannot fail.         *)
(***************************************************************************)
sync_init(w, dir, failAt) ==
    IF Fail(w, failAt)
    THEN Ret([Issue(w, Call("sync_init", dir, 0))
                 EXCEPT !.sync[dir] = FALSE], BackendErr)
    ELSE Ret([Issue(w, Call("sync_init", dir, 0))
                 EXCEPT !.sync[dir] = TRUE], 0)

sync_deinit(w, dir) ==
    [Log(w, Call("sync_deinit", dir, 0)) EXCEPT !.sync[dir] = FALSE]

(* A collaborator call that can fail and whose effect is outside the       *)
(* modelled state.                                                         *)
SimpleCall(w, fn, a, err, failAt) ==
    Ret(Issue(w, Call(fn, a, 0)), IF Fail(w, failAt) THEN err ELSE 0)

(***************************************************************************)
(* Band / port selection.                                                  *)
(***************************************************************************)
_set_ad9361_port(w, ch, enabled, frequency, failAt) ==
    IF CHECK_BOARD_STATE(w, STATE_FPGA_LOADED)
    THEN Ret(w, BLADERF_ERR_NOT_INIT)
    ELSE IF _get_band_port_map(ch, enabled, frequency) = NullEntry
    THEN Ret(w, BLADERF_ERR_INVAL)
    ELSE TryAd(ad9361_set_rf_port(
                   w, _is_tx(ch),
                   _get_band_port_map(ch, enabled, frequency).ad9361_port,
                   failAt),
               Done)

bladerf2_select_band(w, ch, frequency, failAt) ==
    IF CHECK_BOARD_STATE(w, STATE_FPGA_LOADED)
    THEN Ret(w, BLADERF_ERR_NOT_INIT)
    ELSE
    Try(rffe_control_read(w, failAt), LAMBDA rd :
    LET enable == _is_rffe_channel_enabled(rd.val, ch)
        sp == _set_spdt_bits(rd.val, ch, enable, frequency)
    IN
    IF sp.status < 0 THEN Ret(rd.w, sp.status)
    ELSE
    Try(_set_ad9361_port(rd.w, ch, enable, frequency, failAt), LAMBDA pt :
    Try(rffe_control_write(pt.w, sp.reg, failAt), Done)))

(***************************************************************************)
(* Frequency.                                                              *)
(***************************************************************************)
bladerf2_get_frequency_range(ch) ==
    IF _is_tx(ch) THEN bladerf2_tx_frequency_range
    ELSE bladerf2_rx_frequency_range

bladerf2_get_frequency(w, ch, failAt) ==
    IF CHECK_BOARD_STATE(w, STATE_INITIALIZED)
    THEN Ret(w, BLADERF_ERR_NOT_INIT)
    ELSE TryAd(ad9361_get_lo_freq(w, _is_tx(ch), failAt),
               LAMBDA r : RetVal(r.w, 0, r.val))

(* A retune that does not look at the frequency range.                     *)
bladerf2_set_frequency_NoRangeCheck(w, ch, frequency, failAt) ==
    IF CHECK_BOARD_STATE(w, STATE_INITIALIZED)
    THEN Ret(w, BLADERF_ERR_NOT_INIT)
    ELSE
    TryAd(ad9361_set_lo_freq(w, _is_tx(ch), frequency, failAt), LAMBDA lo :
    Try(bladerf2_select_band(lo.w, ch, frequency, failAt), Done))

(* A retune that leaves the band selection as it was.                      *)
bladerf2_set_frequency_NoBand(w, ch, frequency, failAt) ==
    IF CHECK_BOARD_STATE(w, STATE_INITIALIZED)
    THEN Ret(w, BLADERF_ERR_NOT_INIT)
    ELSE IF ~_is_within_range(bladerf2_get_frequency_range(ch), frequency)
    THEN Ret(w, BLADERF_ERR_RANGE)
    ELSE TryAd(ad9361_set_lo_freq(w, _is_tx(ch), frequency, failAt), Done)

bladerf2_set_frequency(w, ch, frequency, failAt) ==
    IF CHECK_BOARD_STATE(w, STATE_INITIALIZED)
    THEN Ret(w, BLADERF_ERR_NOT_INIT)
    ELSE IF ~_is_within_range(bladerf2_get_frequency_range(ch), frequency)
    THEN Ret(w, BLADERF_ERR_RANGE)
    ELSE
    TryAd(ad9361_set_lo_freq(w, _is_tx(ch), frequency, failAt), LAMBDA lo :
    Try(bladerf2_select_band(lo.w, ch, frequency, failAt), Done))

(***************************************************************************)
(* Enable / disable.                                                       *)
(***************************************************************************)
(* Setting the bit by adding it.                                           *)
ModifyEnableBit_Add(reg, dir, enable) ==
    IF enable THEN reg + Pow2(EnableBit(dir))
    ELSE ClearBit(reg, EnableBit(dir))

(* Modify ENABLE/TXNRX bits                                                *)
ModifyEnableBit(reg, dir, enable) ==
    IF enable THEN SetBit(reg, EnableBit(dir))
    ELSE ClearBit(reg, EnableBit(dir))

(* A tail that tells the backend before the register is written.          *)
EnableModuleTail_EnableFirst(w, dir, enable, freq, failAt) ==
    Try(rffe_control_read(w, failAt), LAMBDA rd :
    Try(backend_enable_module(rd.w, dir, enable, failAt), LAMBDA en :
    Try(rffe_control_write(
            en.w,
            _set_spdt_bits(ModifyEnableBit(rd.val, dir, enable),
                           dir, enable, freq).reg,
            failAt), Done)))

(* enable_module from "Read RFFE control register" on.                     *)
EnableModuleTail(w, dir, enable, freq, failAt) ==
    Try(rffe_control_read(w, failAt), LAMBDA rd :
    LET sp == _set_spdt_bits(ModifyEnableBit(rd.val, dir, enable),
                             dir, enable, freq)
    IN
    IF sp.status < 0 THEN Ret(rd.w, sp.status)
    ELSE
    Try(rffe_control_write(rd.w, sp.reg, failAt), LAMBDA wr :
    Try(backend_enable_module(wr.w, dir, enable, failAt), Done)))

(* A disable that tears the stream handle down after the hardware         *)
(* sequence instead of before it.                                          *)
bladerf2_enable_module_LateTeardown(w, dir, enable, failAt) ==
    IF CHECK_BOARD_STATE(w, STATE_INITIALIZED)
    THEN Ret(w, BLADERF_ERR_NOT_INIT)
    ELSE IF enable
    THEN
        Try(bladerf2_get_frequency(w, dir, failAt), LAMBDA gf :
        Try(_set_ad9361_port(gf.w, dir, enable, gf.val, failAt), LAMBDA pt :
        EnableModuleTail(pt.w, dir, enable, gf.val, failAt)))
    ELSE
        LET r == EnableModuleTail(w, dir, enable, 0, failAt)
        IN  Ret(sync_deinit(r.w, dir), r.status)

(* A disable that forgets the stream handle.                               *)
bladerf2_enable_module_NoTeardown(w, dir, enable, failAt) ==
    IF CHECK_BOARD_STATE(w, STATE_INITIALIZED)
    THEN Ret(w, BLADERF_ERR_NOT_INIT)
    ELSE IF enable
    THEN
        Try(bladerf2_get_frequency(w, dir, failAt), LAMBDA gf :
        Try(_set_ad9361_port(gf.w, dir, enable, gf.val, failAt), LAMBDA pt :
        EnableModuleTail(pt.w, dir, enable, gf.val, failAt)))
    ELSE EnableModuleTail(w, dir, enable, 0, failAt)

bladerf2_enable_module(w, dir, enable, failAt) ==
    IF CHECK_BOARD_STATE(w, STATE_INITIALIZED)
    THEN Ret(w, BLADERF_ERR_NOT_INIT)
    ELSE IF enable
    THEN
        Try(bladerf2_get_frequency(w, dir, failAt), LAMBDA gf :
        Try(_set_ad9361_port(gf.w, dir, enable, gf.val, failAt), LAMBDA pt :
        EnableModuleTail(pt.w, dir, enable, gf.val, failAt)))
    ELSE EnableModuleTail(sync_deinit(w, dir), dir, enable, 0, failAt)

(***************************************************************************)
(* Streaming configuration.                                                *)
(***************************************************************************)
bladerf2_sync_config(w, dir, failAt) ==
    IF CHECK_BOARD_STATE(w, STATE_INITIALIZED)
    THEN Ret(w, BLADERF_ERR_NOT_INIT)
    ELSE sync_init(w, dir, failAt)

(***************************************************************************)
(* Low-level initialization.                                               *)
(***************************************************************************)
(* ad9361_init builds a fresh front-end handle from the parameter block:   *)
(* both synthesizers are tuned to the block's default frequencies.         *)
ad9361_init(w, params, failAt) ==
    IF Fail(w, failAt)
    THEN Ret(Issue(w, Call("ad9361_init", 0, 0)), PhyErr)
    ELSE Ret([Issue(w, Call("ad9361_init", 0, 0)) EXCEPT !.phy =
                 [present |-> TRUE,
                  rx_lo |-> params.rx_synth_freq,
                  tx_lo |-> params.tx_synth_freq,
                  rx_port |-> params.rx_rf_port_input_select,
                  tx_port |-> params.tx_rf_port_input_select,
                  pdata |-> params,
                  rx_gain |-> [s \in SubChannels |-> 0],
                  tx_atten |-> [s \in SubChannels |-> 0],
                  gc_mode |-> <<params.gc_rx1_mode, params.gc_rx2_mode>>,
                  rate |-> [d \in Directions |-> 0],
                  bw |-> [d \in Directions |-> 0],
                  grain |-> w.phy.grain,
                  regs |-> w.phy.regs]], 0)

(* Value written by "Initialize RFFE control".                             *)
RffeInitValue == Pow2(RFFE_CONTROL_ENABLE) + Pow2(RFFE_CONTROL_TXNRX)

(* Capabilities taken from the FPGA version alone.                         *)
InitCapabilities_Assign(w, env) ==
    Log([w EXCEPT !.capabilities = env.fpga_caps],
        Call("version_check", env.version_check, 0))

(* "Determine FPGA capabilities" and the version check, whose result       *)
(* (env.version_check: 0 or an UPDATE_* status) is only logged.            *)
InitCapabilities(w, env) ==
    Log([w EXCEPT !.capabilities = @ \cup env.fpga_caps],
        Call("version_check", env.version_check, 0))

(* reg &= ~(1 << TXNRX); reg &= ~(1 << ENABLE)                             *)
InitDisable(reg) ==
    ClearBit(ClearBit(reg, RFFE_CONTROL_TXNRX), RFFE_CONTROL_ENABLE)

(* "Update device state"                                                   *)
InitDone(r) == Ret([r.w EXCEPT !.state = STATE_INITIALIZED], 0)

(* An initialization that gives up on a version mismatch.                 *)
bladerf2_initialize_FatalMismatch(w, env, params, failAt) ==
    IF CHECK_BOARD_STATE(w, STATE_UNINITIALIZED)
    THEN Ret(w, BLADERF_ERR_NOT_INIT)
    ELSE
    Try(SimpleCall(w, "get_fpga_version", 0, BackendErr, failAt), LAMBDA v :
    IF env.version_check < 0
    THEN Ret(InitCapabilities(v.w, env), env.version_check)
    ELSE
    Try(SimpleCall(InitCapabilities(v.w, env), "set_fpga_protocol", 0,
                   BackendErr, failAt), LAMBDA pr :
    Try(rffe_control_write(pr.w, RffeInitValue, failAt), LAMBDA wr :
    Try(SimpleCall(wr.w, "ina219_init", 0, BackendErr, failAt), LAMBDA ina :
    TryAd(ad9361_init(ina.w, params, failAt), LAMBDA a :
    TryAd(SimpleCall(a.w, "ad9361_set_tx_fir_config", 0, PhyErr, failAt),
          LAMBDA b :
    TryAd(SimpleCall(b.w, "ad9361_set_rx_fir_config", 0, PhyErr, failAt),
          LAMBDA c :
    TryAd(SimpleCall(c.w, "ad9361_set_rx_fir_en_dis", 1, PhyErr, failAt),
          LAMBDA d :
    Try(rffe_control_read(d.w, failAt), LAMBDA rd :
    Try(rffe_control_write(rd.w, InitDisable(rd.val), failAt), LAMBDA ds :
    Try(bladerf2_select_band(ds.w, BLADERF_TX,
                             ds.w.phy.pdata.tx_synth_freq, failAt),
        LAMBDA tx :
    Try(bladerf2_select_band(tx.w, BLADERF_RX,
                             tx.w.phy.pdata.rx_synth_freq, failAt),
        InitDone))))))))))))

bladerf2_initialize(w, env, params, failAt) ==
    IF CHECK_BOARD_STATE(w, STATE_UNINITIALIZED)
    THEN Ret(w, BLADERF_ERR_NOT_INIT)
    ELSE
    Try(SimpleCall(w, "get_fpga_version", 0, BackendErr, failAt), LAMBDA v :
    Try(SimpleCall(InitCapabilities(v.w, env), "set_fpga_protocol", 0,
                   BackendErr, failAt), LAMBDA pr :
    Try(rffe_control_write(pr.w, RffeInitValue, failAt), LAMBDA wr :
    Try(SimpleCall(wr.w, "ina219_init", 0, BackendErr, failAt), LAMBDA ina :
    TryAd(ad9361_init(ina.w, params, failAt), LAMBDA a :
    TryAd(SimpleCall(a.w, "ad9361_set_tx_fir_config", 0, PhyErr, failAt),
          LAMBDA b :
    TryAd(SimpleCall(b.w, "ad9361_set_rx_fir_config", 0, PhyErr, failAt),
          LAMBDA c :
    TryAd(SimpleCall(c.w, "ad9361_set_rx_fir_en_dis", 1, PhyErr, failAt),
          LAMBDA d :
    Try(rffe_control_read(d.w, failAt), LAMBDA rd :
    Try(rffe_control_write(rd.w, InitDisable(rd.val), failAt), LAMBDA ds :
    Try(bladerf2_select_band(ds.w, BLADERF_TX,
                             ds.w.phy.pdata.tx_synth_freq, failAt),
        LAMBDA tx :
    Try(bladerf2_select_band(tx.w, BLADERF_RX,
                             tx.w.phy.pdata.rx_synth_freq, failAt),
        InitDone))))))))))))

(***************************************************************************)
(* FPGA loading.                                                           *)
(***************************************************************************)
FPGA_SIZE_XA4 == 2632660

(* A size check that takes the expected size as a minimum.                 *)
is_valid_fpga_size_AtLeast(len, override) ==
    IF override THEN TRUE ELSE len >= FPGA_SIZE_XA4

(* fpga_size is always BLADERF_FPGA_A4 (set by open); override: whether    *)
(* BLADERF_SKIP_FPGA_SIZE_CHECK is in the environment.                     *)
is_valid_fpga_size(len, override) ==
    IF override THEN TRUE ELSE len = FPGA_SIZE_XA4

(* backend load_fpga: on success the FPGA is configured.                   *)
backend_load_fpga(w, len, failAt) ==
    IF Fail(w, failAt)
    THEN Ret(Issue(w, Call("load_fpga", len, 0)), BackendErr)
    ELSE Ret([Issue(w, Call("load_fpga", len, 0))
                 EXCEPT !.fpga_configured = TRUE], 0)

(* A reload that forgets the FPGA is loaded.                               *)
StateAfterLoad_Firmware == STATE_FIRMWARE_LOADED

(* State recorded once the backend has loaded the image.                   *)
StateAfterLoad == STATE_FPGA_LOADED

bladerf2_load_fpga(w, len, override, env, params, failAt) ==
    IF CHECK_BOARD_STATE(w, STATE_FIRMWARE_LOADED)
    THEN Ret(w, BLADERF_ERR_NOT_INIT)
    ELSE IF ~is_valid_fpga_size(len, override)
    THEN Ret(w, BLADERF_ERR_INVAL)
    ELSE
    TryNz(backend_load_fpga(w, len, failAt), LAMBDA ld :
    TryNz(bladerf2_initialize([ld.w EXCEPT !.state = StateAfterLoad],
                              env, params, failAt), Done))

bladerf2_erase_stored_fpga(w, failAt) ==
    IF CHECK_BOARD_STATE(w, STATE_FIRMWARE_LOADED)
    THEN Ret(w, BLADERF_ERR_NOT_INIT)
    ELSE SimpleCall(w, "spi_flash_erase_fpga", 0, BackendErr, failAt)

(***************************************************************************)
(* Open.                                                                   *)
(***************************************************************************)
max_retries == 30

(* The front-end handle of freshly allocated board data (a null pointer).  *)
NoParams == [rx_synth_freq |-> 0, tx_synth_freq |-> 0,
             rx_rf_port_input_select |-> 0, tx_rf_port_input_select |-> 0,
             gc_rx1_mode |-> 0, gc_rx2_mode |-> 0]

NullPhy == [present |-> FALSE, rx_lo |-> 0, tx_lo |-> 0,
            rx_port |-> 0, tx_port |-> 0, pdata |-> NoParams,
            rx_gain |-> [s \in SubChannels |-> 0],
            tx_atten |-> [s \in SubChannels |-> 0],
            gc_mode |-> <<0, 0>>,
            rate |-> [d \in Directions |-> 0],
            bw |-> [d \in Directions |-> 0],
            grain |-> 1,
            regs |-> [a \in CorrRegs |-> 0]]

(* calloc(1, sizeof(struct bladerf2_board_data)); the front end's          *)
(* registers are the chip's and stay as they are.                          *)
FreshBoardData(w) ==
    [w EXCEPT !.state = STATE_UNINITIALIZED, !.capabilities = {},
              !.phy = [NullPhy EXCEPT !.regs = w.phy.regs,
                                      !.grain = w.phy.grain],
              !.sync = [d \in Directions |-> FALSE]]

(* "Wait until firmware is ready": the first poll that reports ready is    *)
(* poll number ready_at (never, if ready_at > max_retries).  Returns the   *)
(* world with the polls logged.                                            *)
NumPolls(ready_at) == IF ready_at <= max_retries THEN ready_at
                      ELSE max_retries

WaitFwReady(w, ready_at) ==
    [w EXCEPT !.calls = @ \o
        [i \in 1 .. NumPolls(ready_at) |->
            Call("is_fw_ready", i, IF i = ready_at THEN 1 ELSE 0)]]

FwReady(ready_at) == ready_at <= max_retries

(* "Determine firmware capabilities", "Update device state" and the wait.  *)
OpenFirmware(w, env) ==
    WaitFwReady([w EXCEPT !.capabilities = @ \cup env.fw_caps,
                          !.state = STATE_FIRMWARE_LOADED],
                env.ready_at)

(* An open that initializes the board without recording the FPGA as       *)
(* loaded.                                                                 *)
OpenInitialize_NoState(w, env, params, failAt) ==
    Try(bladerf2_initialize(w, env, params, failAt), Done)

(* "board_data->state = STATE_FPGA_LOADED" and "Initialize the board"      *)
OpenInitialize(w, env, params, failAt) ==
    Try(bladerf2_initialize([w EXCEPT !.state = STATE_FPGA_LOADED],
                            env, params, failAt), Done)

(* "Try searching for an FPGA in the config search path"                   *)
OpenLoadFpga(w, env, params, failAt) ==
    IF ~env.file_found THEN Ret(w, 0)
    ELSE
    TryNz(SimpleCall(w, "file_read_buffer", 0, BLADERF_ERR_IO, failAt),
          LAMBDA rb :
    TryNz(backend_load_fpga(rb.w, FPGA_SIZE_XA4, failAt), LAMBDA ld :
    OpenInitialize(ld.w, env, params, failAt)))

(* open from "Check if FPGA is configured" on.                             *)
OpenFpga(w, env, params, failAt) ==
    Try(SimpleCall(w, "is_fpga_configured", 0, BackendErr, failAt),
        LAMBDA cf :
    IF w.fpga_configured THEN OpenInitialize(cf.w, env, params, failAt)
    ELSE OpenLoadFpga(Log(cf.w, Call("file_find", 0,
                                     IF env.file_found THEN 1 ELSE 0)),
                      env, params, failAt))

bladerf2_open(w, env, params, failAt) ==
    Try(SimpleCall(FreshBoardData(w), "get_fw_version", 0, BackendErr,
                   failAt), LAMBDA fw :
    IF ~FwReady(env.ready_at)
    THEN Ret(OpenFirmware(fw.w, env), BLADERF_ERR_TIMEOUT)
    ELSE
    Try(SimpleCall(OpenFirmware(fw.w, env), "get_device_speed", 0,
                   BackendErr, failAt), LAMBDA sp :
    IF env.speed \notin {"super", "high"}
    THEN Ret(sp.w, BLADERF_ERR_UNEXPECTED)
    ELSE IF env.fw_check # 0
    THEN Ret(Log(sp.w, Call("version_check_fw", env.fw_check, 0)),
             env.fw_check)
    ELSE IF env.no_fpga_env
    THEN Ret(Log(sp.w, Call("version_check_fw", env.fw_check, 0)), 0)
    ELSE OpenFpga(Log(sp.w, Call("version_check_fw", env.fw_check, 0)),
                  env, params, failAt)))

(***************************************************************************)
(* Low-level accessors.  dev is "this" (the open device), "null" or        *)
(* "foreign" (a device of another board); val_null: the output pointer is  *)
(* NULL.                                                                   *)
(***************************************************************************)
AD_READ   == 0
AD_WRITE  == 32768
AD_CNT(x) == ((x - 1) % 8) * 4096

MUTEX_LOCK(w) == [w EXCEPT !.lock = TRUE, !.nlock = @ + 1]
MUTEX_UNLOCK(w) == [w EXCEPT !.lock = FALSE]

(* An error path that returns with the lock still held.                    *)
UnlockReturn_LeakOnError(r, convert) ==
    IF r.status >= 0 THEN Ret(MUTEX_UNLOCK(r.w), 0)
    ELSE Ret(r.w, IF convert THEN RETURN_ERROR_AD9361(r.status)
                  ELSE r.status)

(* The transport call and the unlock on either path; a transport failure   *)
(* goes through RETURN_ERROR_AD9361 (ad9361) or is returned as it is       *)
(* (adf400x).                                                              *)
UnlockReturn(r, convert) ==
    Ret(MUTEX_UNLOCK(r.w),
        IF r.status >= 0 THEN 0
        ELSE IF convert THEN RETURN_ERROR_AD9361(r.status)
        ELSE r.status)

(* MUTEX_LOCK, CHECK_BOARD_STATE_LOCKED and the transport call fn.         *)
LockedTransport(w, required, fn, address, convert, failAt) ==
    IF CHECK_BOARD_STATE(MUTEX_LOCK(w), required)
    THEN Ret(MUTEX_UNLOCK(MUTEX_LOCK(w)), BLADERF_ERR_NOT_INIT)
    ELSE UnlockReturn(SimpleCall(MUTEX_LOCK(w), fn, address, BackendErr,
                                 failAt), convert)

bladerf_ad9361_read(w, dev, address, val_null, failAt) ==
    IF dev = "null" THEN Ret(w, BLADERF_ERR_INVAL)
    ELSE IF dev # "this" THEN Ret(w, BLADERF_ERR_UNSUPPORTED)
    ELSE IF val_null THEN Ret(w, BLADERF_ERR_INVAL)
    ELSE LockedTransport(w, STATE_FPGA_LOADED, "ad9361_spi_read",
                         AD_READ + AD_CNT(1) + address, TRUE, failAt)

bladerf_ad9361_write(w, dev, address, failAt) ==
    IF dev = "null" THEN Ret(w, BLADERF_ERR_INVAL)
    ELSE IF dev # "this" THEN Ret(w, BLADERF_ERR_UNSUPPORTED)
    ELSE LockedTransport(w, STATE_FPGA_LOADED, "ad9361_spi_write",
                         AD_WRITE + AD_CNT(1) + address, TRUE, failAt)

bladerf_adf4002_read(w, dev, address, val_null, failAt) ==
    IF dev = "null" THEN Ret(w, BLADERF_ERR_INVAL)
    ELSE IF dev # "this" THEN Ret(w, BLADERF_ERR_UNSUPPORTED)
    ELSE IF val_null THEN Ret(w, BLADERF_ERR_INVAL)
    ELSE LockedTransport(w, STATE_FPGA_LOADED, "adf400x_read",
                         address % 4, FALSE, failAt)

bladerf_adf4002_write(w, dev, address, failAt) ==
    IF dev = "null" THEN Ret(w, BLADERF_ERR_INVAL)
    ELSE IF dev # "this" THEN Ret(w, BLADERF_ERR_UNSUPPORTED)
    ELSE LockedTransport(w, STATE_FPGA_LOADED, "adf400x_write",
                         address % 4, FALSE, failAt)

(***************************************************************************)
(* Bounds and input sets.                                                  *)
(***************************************************************************)
(* Largest index of a failing collaborator call tried in one operation     *)
(* (0: none fails).  open makes at most 21 calls that can fail, load_fpga  *)
(* 17, enable_module 5, set_frequency 4, select_band 3.                    *)
MaxFailAt == 21
MaxFailAtEnable == 5
MaxFailAtFreq == 4
MaxFailAtBand == 3

FailAts == 0 .. MaxFailAt
FailAtsEnable == 0 .. MaxFailAtEnable
FailAtsFreq == 0 .. MaxFailAtFreq
FailAtsBand == 0 .. MaxFailAtBand

(* Frequencies (kHz) asked of set_frequency: the range limits, the         *)
(* low/high band boundary and their neighbours.                            *)
FreqInputs == {69999, 70000, 3000000, 3000001, 6000001}
TxFreqInputs == {3000000, 3000001}
(* The limits of the frequency range and their outer neighbours.           *)
RangeFreqInputs == {69999, 70000, 6000000, 6000001}

(* The front end's initialization parameter block (ad9361_init_params).    *)
InitParamChoices ==
    { [rx_synth_freq |-> 2400000, tx_synth_freq |-> 2400000,
       rx_rf_port_input_select |-> A_BALANCED,
       tx_rf_port_input_select |-> TXA,
       gc_rx1_mode |-> RF_GAIN_SLOWATTACK_AGC,
       gc_rx2_mode |-> RF_GAIN_SLOWATTACK_AGC],
      [rx_synth_freq |-> 4000000, tx_synth_freq |-> 200000,
       rx_rf_port_input_select |-> B_BALANCED,
       tx_rf_port_input_select |-> TXB,
       gc_rx1_mode |-> RF_GAIN_SLOWATTACK_AGC,
       gc_rx2_mode |-> RF_GAIN_SLOWATTACK_AGC] }

(* What the environment answers during initialization and open.            *)
InitEnvs ==
    { [fpga_caps |-> {1, 2}, version_check |-> 0],
      [fpga_caps |-> {1}, version_check |-> BLADERF_ERR_UPDATE_FPGA] }

OpenEnvs ==
    [fw_caps : {{0}},
     ready_at : {1, max_retries, max_retries + 1},
     speed : {"super", "unknown"},
     fw_check : {0, BLADERF_ERR_UPDATE_FW},
     no_fpga_env : BOOLEAN,
     file_found : BOOLEAN,
     fpga_caps : {{1}, {1, 2}},
     version_check : {0, BLADERF_ERR_UPDATE_FPGA}]

(* An environment in which open finds everything in order.                 *)
OpenEnvsOk ==
    {e \in OpenEnvs : /\ e.ready_at = 1 /\ e.speed = "super"
                      /\ e.fw_check = 0 /\ ~e.no_fpga_env /\ e.file_found
                      /\ e.fpga_caps = {1} /\ e.version_check = 0}

(* As OpenEnvsOk, with or without BLADERF_FORCE_NO_FPGA_PRESENT: open      *)
(* leaves the board Initialized or at FirmwareLoaded.                      *)
OpenEnvsFpgaOrNot ==
    {e \in OpenEnvs : /\ e.ready_at = 1 /\ e.speed = "super"
                      /\ e.fw_check = 0 /\ e.file_found
                      /\ e.fpga_caps = {1} /\ e.version_check = 0}

FpgaLengths == {FPGA_SIZE_XA4, 2000000}
Devs == {"this", "null", "foreign"}
Addresses == {23}

(* Number of threads calling the accessors at once.                        *)
NumThreads == 2
Threads == 1 .. NumThreads

(***************************************************************************)
(* State.                                                                  *)
(***************************************************************************)
VARIABLES
    opened,             \* "closed", "open" or "failed" (open returned error)
    state,              \* board_data->state
    capabilities,       \* board_data->capabilities, as the set of its bits
    phy,                \* the RF front end behind board_data->phy
    sync,               \* board_data->sync[dir].initialized
    rffe,               \* the FPGA's RFFE control register
    fpga_configured,    \* what is_fpga_configured reports
    lock,               \* dev->lock is held
    ad9361_init_params, \* the parameter block the front end is built from
    pc,                 \* the caller: "idle", or "returned" from a call
    last,               \* the call that returned: name, arguments, result
    sinceInitOk,        \* since the last successful initialization, every
                        \* enable_module and set_frequency call has
                        \* succeeded and select_band was not called directly
    prev,               \* the call before the current one, when it
                        \* succeeded and is one the caller keeps track of
    threads,            \* per thread: where it is in a call, which
                        \* operation, the status it returns and the
                        \* call's local variables dir, freq and reg
    holder              \* the thread holding dev->lock (0: none of them)

vars == <<opened, state, capabilities, phy, sync, rffe, fpga_configured,
          lock, ad9361_init_params, pc, last, sinceInitOk, prev, threads,
          holder>>

(* The board data and the hardware.                                        *)
hw == <<state, capabilities, phy, sync, rffe, fpga_configured, lock>>

World ==
    [state |-> state, capabilities |-> capabilities, phy |-> phy,
     sync |-> sync, rffe |-> rffe, fpga_configured |-> fpga_configured,
     lock |-> lock, calls |-> <<>>, k |-> 0, nlock |-> 0]

(* The board data and hardware part of a world.                            *)
Board(w) ==
    [state |-> w.state, capabilities |-> w.capabilities, phy |-> w.phy,
     sync |-> w.sync, rffe |-> w.rffe,
     fpga_configured |-> w.fpga_configured, lock |-> w.lock]

(* What the caller passed for the device handle and the output pointer.    *)
ArgCheck(dev, val_null) ==
    IF dev = "null" THEN "null_dev"
    ELSE IF dev # "this" THEN "foreign_dev"
    ELSE IF val_null THEN "null_ptr"
    ELSE "ok"

(* Record of a call: ch is the channel or direction, x the other argument, *)
(* args the outcome of ArgCheck, pre the board before the call, calls the  *)
(* collaborator calls it made, in order, nlock how many times it took the  *)
(* device lock, val what it stored through its output pointer.             *)
Op(name, ch, x, args, r) ==
    [op |-> name, ch |-> ch, x |-> x, args |-> args, status |-> r.status,
     pre |-> Board(World), calls |-> r.w.calls, nlock |-> r.w.nlock,
     val |-> r.val]

NoOp == [op |-> "none", ch |-> 0, x |-> 0, args |-> "ok", status |-> 0,
         pre |-> Board(World), calls |-> <<>>, nlock |-> 0, val |-> 0]

NoPrev == [op |-> "none", ch |-> 0, x |-> 0]

(* A thread outside any call.                                              *)
NoCall == [pc |-> "idle", op |-> "none", status |-> 0,
           dir |-> 0, freq |-> 0, reg |-> 0]

Commit(r) ==
    /\ state' = r.w.state
    /\ capabilities' = r.w.capabilities
    /\ phy' = r.w.phy
    /\ sync' = r.w.sync
    /\ rffe' = r.w.rffe
    /\ fpga_configured' = r.w.fpga_configured
    /\ lock' = r.w.lock
    /\ pc' = "returned"
    /\ UNCHANGED <<ad9361_init_params, prev, threads, holder>>

Init ==
    /\ opened = "closed"
    /\ state = STATE_UNINITIALIZED
    /\ capabilities = {}
    /\ phy = NullPhy
    /\ sync = [d \in Directions |-> FALSE]
    /\ rffe = 0
    /\ fpga_configured \in BOOLEAN
    /\ lock = FALSE
    /\ ad9361_init_params \in InitParamChoices
    /\ pc = "idle"
    /\ last = NoOp
    /\ sinceInitOk = FALSE
    /\ prev = NoPrev
    /\ threads = [t \in Threads |-> NoCall]
    /\ holder = 0

(***************************************************************************)
(* Actions: one per operation, over the sets its inputs are drawn from.    *)
(***************************************************************************)
Open(envs, fails) ==
    /\ pc = "idle" /\ opened = "closed"
    /\ \E env \in envs, failAt \in fails :
         LET r == bladerf2_open(World, env, ad9361_init_params, failAt)
         IN  /\ Commit(r)
             /\ opened' = IF r.status = 0 THEN "open" ELSE "failed"
             /\ last' = Op("open", 0, 0, "ok", r)
             /\ sinceInitOk' = (r.w.state = STATE_INITIALIZED)

LoadFpga(lens, envs, fails) ==
    /\ pc = "idle" /\ opened = "open"
    /\ \E len \in lens, override \in BOOLEAN, env \in envs, failAt \in fails :
         LET r == bladerf2_load_fpga(World, len, override, env,
                                     ad9361_init_params, failAt)
         IN  /\ Commit(r)
             /\ last' = Op("load_fpga", 0, len, "ok", r)
             /\ sinceInitOk' = IF r.w.calls = <<>> THEN sinceInitOk
                               ELSE r.status = 0
             /\ UNCHANGED opened

EraseStoredFpga(fails) ==
    /\ pc = "idle" /\ opened = "open"
    /\ \E failAt \in fails :
         LET r == bladerf2_erase_stored_fpga(World, failAt)
         IN  /\ Commit(r)
             /\ last' = Op("erase_stored_fpga", 0, 0, "ok", r)
             /\ UNCHANGED <<opened, sinceInitOk>>

SetFrequency(chs, freqs, fails) ==
    /\ pc = "idle" /\ opened = "open"
    /\ \E ch \in chs, f \in freqs, failAt \in fails :
         LET r == bladerf2_set_frequency(World, ch, f, failAt)
         IN  /\ Commit(r)
             /\ last' = Op("set_frequency", ch, f, "ok", r)
             /\ sinceInitOk' = (sinceInitOk /\ r.status = 0)
             /\ UNCHANGED opened

SelectBand(chs, freqs, fails) ==
    /\ pc = "idle" /\ opened = "open"
    /\ \E ch \in chs, f \in freqs, failAt \in fails :
         LET r == bladerf2_select_band(World, ch, f, failAt)
         IN  /\ Commit(r)
             /\ last' = Op("select_band", ch, f, "ok", r)
             /\ sinceInitOk' = (sinceInitOk /\ r.w.calls = <<>>)
             /\ UNCHANGED opened

GetFrequency(chs, fails) ==
    /\ pc = "idle" /\ opened = "open"
    /\ \E ch \in chs, failAt \in fails :
         LET r == bladerf2_get_frequency(World, ch, failAt)
         IN  /\ Commit(r)
             /\ last' = Op("get_frequency", ch, r.val, "ok", r)
             /\ UNCHANGED <<opened, sinceInitOk>>

EnableModule(dirs, fails) ==
    /\ pc = "idle" /\ opened = "open"
    /\ \E dir \in dirs, enable \in BOOLEAN, failAt \in fails :
         LET r == bladerf2_enable_module(World, dir, enable, failAt)
         IN  /\ Commit(r)
             /\ last' = Op("enable_module", dir, IF enable THEN 1 ELSE 0,
                           "ok", r)
             /\ sinceInitOk' = (sinceInitOk /\ r.status = 0)
             /\ UNCHANGED opened

SyncConfig(dirs, fails) ==
    /\ pc = "idle" /\ opened = "open"
    /\ \E dir \in dirs, failAt \in fails :
         LET r == bladerf2_sync_config(World, dir, failAt)
         IN  /\ Commit(r)
             /\ last' = Op("sync_config", dir, 0, "ok", r)
             /\ UNCHANGED <<opened, sinceInitOk>>

Ad9361Read(fails) ==
    /\ pc = "idle" /\ opened = "open"
    /\ \E dev \in Devs, a \in Addresses, val_null \in BOOLEAN,
          failAt \in fails :
         LET r == bladerf_ad9361_read(World, dev, a, val_null, failAt)
         IN  /\ Commit(r)
             /\ last' = Op("ad9361_read", 0, a,
                           ArgCheck(dev, val_null), r)
             /\ UNCHANGED <<opened, sinceInitOk>>

Ad9361Write(fails) ==
    /\ pc = "idle" /\ opened = "open"
    /\ \E dev \in Devs, a \in Addresses, failAt \in fails :
         LET r == bladerf_ad9361_write(World, dev, a, failAt)
         IN  /\ Commit(r)
             /\ last' = Op("ad9361_write", 0, a, ArgCheck(dev, FALSE), r)
             /\ UNCHANGED <<opened, sinceInitOk>>

Adf4002Read(fails) ==
    /\ pc = "idle" /\ opened = "open"
    /\ \E dev \in Devs, a \in Addresses, val_null \in BOOLEAN,
          failAt \in fails :
         LET r == bladerf_adf4002_read(World, dev, a, val_null, failAt)
         IN  /\ Commit(r)
             /\ last' = Op("adf4002_read", 0, a,
                           ArgCheck(dev, val_null), r)
             /\ UNCHANGED <<opened, sinceInitOk>>

Adf4002Write(fails) ==
    /\ pc = "idle" /\ opened = "open"
    /\ \E dev \in Devs, a \in Addresses, failAt \in fails :
         LET r == bladerf_adf4002_write(World, dev, a, failAt)
         IN  /\ Commit(r)
             /\ last' = Op("adf4002_write", 0, a, ArgCheck(dev, FALSE), r)
             /\ UNCHANGED <<opened, sinceInitOk>>

(* The caller takes the result and is ready for its next call; it keeps    *)
(* track of a successful call that is one of those in tracked.             *)
Return(tracked) ==
    /\ pc = "returned"
    /\ pc' = "idle"
    /\ last' = NoOp
    /\ prev' = IF /\ last.status = 0
                  /\ [op |-> last.op, ch |-> last.ch, x |-> last.x]
                         \in tracked
               THEN [op |-> last.op, ch |-> last.ch, x |-> last.x]
               ELSE NoPrev
    /\ UNCHANGED <<opened, state, capabilities, phy, sync, rffe,
                   fpga_configured, lock, ad9361_init_params, sinceInitOk,
                   threads, holder>>

(***************************************************************************)
(* Spec: bring-up.  Every outcome of open and load_fpga; the other         *)
(* operations are called in every board state this reaches.                *)
(***************************************************************************)
Next ==
    \/ Open(OpenEnvs, FailAts)
    \/ LoadFpga(FpgaLengths, InitEnvs, FailAts)
    \/ EraseStoredFpga({0, 1})
    \/ SetFrequency({BLADERF_RX}, {70000}, {0})
    \/ SelectBand({BLADERF_RX}, {70000}, {0})
    \/ GetFrequency({BLADERF_RX}, {0})
    \/ EnableModule({BLADERF_RX}, {0})
    \/ SyncConfig({BLADERF_RX}, {0})
    \/ Ad9361Read({0, 1})
    \/ Ad9361Write({0, 1})
    \/ Adf4002Read({0, 1})
    \/ Adf4002Write({0, 1})
    \/ Return({})

Spec == Init /\ [][Next]_vars

(***************************************************************************)
(* SpecRf: band selection and module enable on a board that open has       *)
(* initialized: every collaborator failure for RX, TX without failures.    *)
(***************************************************************************)
NextRf ==
    \/ Open(OpenEnvsOk, {0})
    \/ SetFrequency({BLADERF_RX}, FreqInputs, FailAtsFreq)
    \/ SetFrequency({BLADERF_TX}, TxFreqInputs, {0})
    \/ SelectBand({BLADERF_RX}, FreqInputs, FailAtsBand)
    \/ GetFrequency(Directions, {0, 1})
    \/ EnableModule({BLADERF_RX}, FailAtsEnable)
    \/ EnableModule({BLADERF_TX}, {0})
    \/ SyncConfig(Directions, {0, 1})
    \/ LoadFpga({FPGA_SIZE_XA4}, OpenEnvsOk, {0})
    \/ Return({})

InitRf ==
    /\ Init
    /\ fpga_configured
    /\ ad9361_init_params.rx_synth_freq = 4000000

SpecRf == InitRf /\ [][NextRf]_vars

(***************************************************************************)
(* The low-level accessors, statement by statement, called from several    *)
(* threads.  What a thread does before MUTEX_LOCK touches nothing shared.  *)
(***************************************************************************)
Accessors == {"ad9361_read", "ad9361_write", "adf4002_read",
              "adf4002_write"}

(* A lock taken without waiting for it.                                    *)
LockFree_Always == TRUE

(* MUTEX_LOCK blocks until the lock is free.                               *)
LockFree == ~lock

(* Everything the accessor steps leave alone.                              *)
BoardUnchanged ==
    UNCHANGED <<opened, state, capabilities, phy, sync, rffe,
                fpga_configured, ad9361_init_params, pc, last, sinceInitOk,
                prev>>

(* Entry and argument validation: NULL == dev, the board check and, for    *)
(* the reads, NULL == val.                                                 *)
AccessorEnter(t) ==
    /\ pc = "idle" /\ opened = "open"
    /\ threads[t].pc = "idle"
    /\ \E op \in Accessors, dev \in Devs, val_null \in BOOLEAN :
         LET args == ArgCheck(dev, val_null /\ op \in {"ad9361_read",
                                                        "adf4002_read"})
         IN  threads' = [threads EXCEPT ![t] =
                 IF args = "ok"
                 THEN [NoCall EXCEPT !.pc = "lock", !.op = op]
                 ELSE [NoCall EXCEPT !.pc = "done", !.op = op,
                       !.status = IF args = "foreign_dev"
                                  THEN BLADERF_ERR_UNSUPPORTED
                                  ELSE BLADERF_ERR_INVAL]]
    /\ UNCHANGED <<lock, holder>>
    /\ BoardUnchanged

(* MUTEX_LOCK(&dev->lock)                                                  *)
AccessorLock(t) ==
    /\ threads[t].pc = "lock"
    /\ LockFree
    /\ lock' = TRUE
    /\ holder' = t
    /\ threads' = [threads EXCEPT ![t].pc = "check"]
    /\ BoardUnchanged

(* CHECK_BOARD_STATE_LOCKED(STATE_FPGA_LOADED)                             *)
AccessorCheck(t) ==
    /\ threads[t].pc = "check"
    /\ IF state < STATE_FPGA_LOADED
       THEN /\ lock' = FALSE
            /\ holder' = IF holder = t THEN 0 ELSE holder
            /\ threads' = [threads EXCEPT ![t].pc = "done",
                               ![t].status = BLADERF_ERR_NOT_INIT]
       ELSE /\ threads' = [threads EXCEPT ![t].pc = "transport"]
            /\ UNCHANGED <<lock, holder>>
    /\ BoardUnchanged

(* The raw transport operation is started ...                              *)
AccessorTransportBegin(t) ==
    /\ threads[t].pc = "transport"
    /\ threads' = [threads EXCEPT ![t].pc = "in_transport"]
    /\ UNCHANGED <<lock, holder>>
    /\ BoardUnchanged

(* ... and returns its status.                                             *)
AccessorTransportEnd(t) ==
    /\ threads[t].pc = "in_transport"
    /\ \E failed \in BOOLEAN :
         threads' = [threads EXCEPT ![t].pc = "unlock",
             ![t].status =
                 IF ~failed THEN 0
                 ELSE IF threads[t].op \in {"ad9361_read", "ad9361_write"}
                 THEN RETURN_ERROR_AD9361(BackendErr)
                 ELSE BackendErr]
    /\ UNCHANGED <<lock, holder>>
    /\ BoardUnchanged

(* MUTEX_UNLOCK(&dev->lock), on the failure and the success path.          *)
AccessorUnlock(t) ==
    /\ threads[t].pc = "unlock"
    /\ lock' = FALSE
    /\ holder' = IF holder = t THEN 0 ELSE holder
    /\ threads' = [threads EXCEPT ![t].pc = "done"]
    /\ BoardUnchanged

(* return                                                                  *)
AccessorReturn(t) ==
    /\ threads[t].pc = "done"
    /\ threads' = [threads EXCEPT ![t] = NoCall]
    /\ UNCHANGED <<lock, holder>>
    /\ BoardUnchanged

AccessorStep(t) ==
    \/ AccessorLock(t)
    \/ AccessorCheck(t)
    \/ AccessorTransportBegin(t)
    \/ AccessorTransportEnd(t)
    \/ AccessorUnlock(t)
    \/ AccessorReturn(t)

(***************************************************************************)
(* SpecThreads: one thread opens the device, then the threads call the     *)
(* accessors concurrently.  A thread inside a call keeps running, and one  *)
(* waiting for the lock gets it if it is free again and again.             *)
(***************************************************************************)
NextThreads ==
    \/ Open(OpenEnvsFpgaOrNot, {0})
    \/ Return({})
    \/ \E t \in Threads : AccessorEnter(t)
    \/ \E t \in Threads : AccessorLock(t)
    \/ \E t \in Threads : AccessorCheck(t)
    \/ \E t \in Threads : AccessorTransportBegin(t)
    \/ \E t \in Threads : AccessorTransportEnd(t)
    \/ \E t \in Threads : AccessorUnlock(t)
    \/ \E t \in Threads : AccessorReturn(t)

SpecThreads ==
    /\ InitRf
    /\ [][NextThreads]_vars
    /\ \A t \in Threads : WF_vars(AccessorStep(t))
    /\ \A t \in Threads : SF_vars(AccessorLock(t))

(***************************************************************************)
(* enable_module(dir, true), statement by statement, called from several   *)
(* threads, each through a caller that holds dev->lock around the call.    *)
(* Thread t enables direction DirOf(t).                                    *)
(***************************************************************************)
DirOf(t) == (t - 1) % 2

(* A step of thread t at pc from that leaves the lock alone: on failure    *)
(* the call returns to its caller with the error.                          *)
EnableGoto(t, failed, err, to) ==
    IF failed
    THEN [threads EXCEPT ![t].pc = "e_unlock", ![t].status = err]
    ELSE [threads EXCEPT ![t].pc = to]

(* The caller takes the device lock and calls enable_module(dir, true).    *)
CallerLock(t) ==
    /\ pc = "idle" /\ opened = "open"
    /\ threads[t].pc = "idle"
    /\ LockFree
    /\ lock' = TRUE
    /\ holder' = t
    /\ threads' = [threads EXCEPT ![t] =
           [NoCall EXCEPT !.pc = "e_check", !.op = "enable_module",
                          !.dir = DirOf(t)]]
    /\ BoardUnchanged

(* CHECK_BOARD_STATE(STATE_INITIALIZED)                                    *)
EnableCheck(t) ==
    /\ threads[t].pc = "e_check"
    /\ threads' = EnableGoto(t, CHECK_BOARD_STATE(World, STATE_INITIALIZED),
                             BLADERF_ERR_NOT_INIT, "e_get_freq")
    /\ UNCHANGED <<lock, holder>>
    /\ BoardUnchanged

(* "Get current frequency"                                                 *)
EnableGetFrequency(t) ==
    /\ threads[t].pc = "e_get_freq"
    /\ \E failAt \in {0, 1} :
         LET r == bladerf2_get_frequency(World, threads[t].dir, failAt)
         IN  threads' = [EnableGoto(t, r.status < 0, r.status, "e_set_port")
                            EXCEPT ![t].freq = r.val]
    /\ UNCHANGED <<lock, holder>>
    /\ BoardUnchanged

(* "Set the AD9361 port accordingly"                                       *)
EnableSetPort(t) ==
    /\ threads[t].pc = "e_set_port"
    /\ \E failAt \in {0, 1} :
         LET r == _set_ad9361_port(World, threads[t].dir, TRUE,
                                   threads[t].freq, failAt)
         IN  /\ threads' = EnableGoto(t, r.status < 0, r.status, "e_read")
             /\ phy' = r.w.phy
    /\ UNCHANGED <<lock, holder, opened, state, capabilities, sync, rffe,
                   fpga_configured, ad9361_init_params, pc, last,
                   sinceInitOk, prev>>

(* "Read RFFE control register"                                            *)
EnableRead(t) ==
    /\ threads[t].pc = "e_read"
    /\ \E failAt \in {0, 1} :
         LET r == rffe_control_read(World, failAt)
         IN  threads' = [EnableGoto(t, r.status < 0, r.status, "e_write")
                            EXCEPT ![t].reg = r.val]
    /\ UNCHANGED <<lock, holder>>
    /\ BoardUnchanged

(* "Modify ENABLE/TXNRX bits", "Modify SPDT bits" and "Write RFFE control  *)
(* register"                                                               *)
EnableWrite(t) ==
    /\ threads[t].pc = "e_write"
    /\ \E failAt \in {0, 1} :
         LET sp == _set_spdt_bits(
                       ModifyEnableBit(threads[t].reg, threads[t].dir, TRUE),
                       threads[t].dir, TRUE, threads[t].freq)
             r == IF sp.status < 0 THEN Ret(World, sp.status)
                  ELSE rffe_control_write(World, sp.reg, failAt)
         IN  /\ threads' = EnableGoto(t, r.status < 0, r.status,
                                      "e_backend")
             /\ rffe' = r.w.rffe
    /\ UNCHANGED <<lock, holder, opened, state, capabilities, sync, phy,
                   fpga_configured, ad9361_init_params, pc, last,
                   sinceInitOk, prev>>

(* "Enable module through backend" and return 0                            *)
EnableBackend(t) ==
    /\ threads[t].pc = "e_backend"
    /\ \E failAt \in {0, 1} :
         LET r == backend_enable_module(World, threads[t].dir, TRUE, failAt)
         IN  threads' = EnableGoto(t, r.status < 0, r.status, "e_unlock")
    /\ UNCHANGED <<lock, holder>>
    /\ BoardUnchanged

(* The caller releases the device lock and has the call's status.          *)
CallerUnlock(t) ==
    /\ threads[t].pc = "e_unlock"
    /\ lock' = FALSE
    /\ holder' = IF holder = t THEN 0 ELSE holder
    /\ threads' = [threads EXCEPT ![t].pc = "e_done"]
    /\ BoardUnchanged

AllIdle == \A t \in Threads : threads[t].pc = "idle"

(***************************************************************************)
(* SpecEnable: one thread opens the device and tunes it, then every        *)
(* thread enables its direction once.                                      *)
(***************************************************************************)
NextEnable ==
    \/ Open(OpenEnvsOk, {0})
    \/ Return({})
    \/ AllIdle /\ SetFrequency(Directions, TxFreqInputs, {0})
    \/ \E t \in Threads : CallerLock(t)
    \/ \E t \in Threads : EnableCheck(t)
    \/ \E t \in Threads : EnableGetFrequency(t)
    \/ \E t \in Threads : EnableSetPort(t)
    \/ \E t \in Threads : EnableRead(t)
    \/ \E t \in Threads : EnableWrite(t)
    \/ \E t \in Threads : EnableBackend(t)
    \/ \E t \in Threads : CallerUnlock(t)

SpecEnable == InitRf /\ [][NextEnable]_vars

(***************************************************************************)
(* SpecTwice: enable and retune on an initialized board, the caller        *)
(* keeping track of a successful enable.                                   *)
(***************************************************************************)
NextTwice ==
    \/ Open(OpenEnvsOk, {0})
    \/ SetFrequency(Directions, TxFreqInputs, {0, 2})
    \/ EnableModule({BLADERF_RX}, FailAtsEnable)
    \/ EnableModule({BLADERF_TX}, {0})
    \/ Return({[op |-> "enable_module", ch |-> d, x |-> 1] :
                   d \in Directions})

SpecTwice == InitRf /\ [][NextTwice]_vars

(***************************************************************************)
(* SpecFreq: retuning to the limits of the frequency range, every          *)
(* collaborator failure for RX.                                            *)
(***************************************************************************)
NextFreq ==
    \/ Open(OpenEnvsOk, {0})
    \/ SetFrequency({BLADERF_RX}, RangeFreqInputs, FailAtsFreq)
    \/ SetFrequency({BLADERF_TX}, RangeFreqInputs, {0})
    \/ EnableModule(Directions, {0})
    \/ Return({})

SpecFreq == InitRf /\ [][NextFreq]_vars

TypeOK ==
    /\ opened \in {"closed", "open", "failed"}
    /\ state \in STATE_UNINITIALIZED .. STATE_INITIALIZED
    /\ capabilities \subseteq 0 .. 2
    /\ sync \in [Directions -> BOOLEAN]
    /\ rffe \in 0 .. 32767
    /\ lock \in BOOLEAN
    /\ pc \in {"idle", "returned", "polling", "polled"}

(***************************************************************************)
(* Properties.  What a returned call shows: the board before it (last.pre) *)
(* and after it (the state), its status and its collaborator calls.        *)
(***************************************************************************)
Returned(op) == pc = "returned" /\ last.op = op

PortOf(b, dir) == IF _is_tx(dir) THEN b.phy.tx_port ELSE b.phy.rx_port

LoOf(b, dir) == IF _is_tx(dir) THEN b.phy.tx_lo ELSE b.phy.rx_lo

SpdtOf(reg, dir) == GetField(reg, SwShift(dir))

(* The minimum state each operation declares.                              *)
RequiredState(op) ==
    CASE op \in {"set_frequency", "get_frequency", "enable_module",
                 "sync_config"} -> STATE_INITIALIZED
      [] op \in {"select_band", "ad9361_read", "ad9361_write",
                 "adf4002_read", "adf4002_write"} -> STATE_FPGA_LOADED
      [] op \in {"load_fpga", "erase_stored_fpga"} -> STATE_FIRMWARE_LOADED
      [] OTHER -> STATE_UNINITIALIZED

(* What the state check promises of a call it stops.                       *)
Gated ==
    /\ last.status = BLADERF_ERR_NOT_INIT
    /\ last.calls = <<>>
    /\ Board(World) = last.pre

C2_StateNeverDecreases ==
    pc = "returned" => state >= last.pre.state

(* C2, amended: the board state never decreases, except that load_fpga     *)
(* called on an Initialized board whose re-initialization fails leaves the *)
(* board FpgaLoaded; a load_fpga that succeeds leaves it Initialized.      *)
C2_StateForwardButReload ==
    /\ pc = "returned" =>
          \/ state >= last.pre.state
          \/ /\ last.op = "load_fpga"
             /\ last.status # 0
             /\ last.pre.state = STATE_INITIALIZED
             /\ state = STATE_FPGA_LOADED
    /\ (Returned("load_fpga") /\ last.status = 0) =>
          state = STATE_INITIALIZED

C2_Witness ==
    /\ Returned("load_fpga")
    /\ last.pre.state = STATE_INITIALIZED
    /\ last.status # 0
    /\ state = STATE_FPGA_LOADED

(***************************************************************************)
(* Reading a call log.                                                     *)
(***************************************************************************)
GetLoFn(dir) == IF _is_tx(dir) THEN "ad9361_get_tx_lo_freq"
                ELSE "ad9361_get_rx_lo_freq"

SetPortFn(dir) == IF _is_tx(dir) THEN "ad9361_set_tx_rf_port_output"
                  ELSE "ad9361_set_rx_rf_port_input"

HasCall(calls, fn) == \E i \in DOMAIN calls : calls[i].fn = fn

(* Every call of fb in the log comes after a call of fa.                   *)
Precedes(calls, fa, fb) ==
    \A i \in DOMAIN calls :
        calls[i].fn = fb => \E j \in 1 .. (i - 1) : calls[j].fn = fa

(* C3: a successful enable_module(dir, true) makes exactly these calls in  *)
(* this order: get dir's frequency, set dir's front-end port for the band  *)
(* of that frequency, read the control register, write it with dir's       *)
(* enable bit set and dir's antenna-switch field set for that band, tell   *)
(* the backend to enable; and in no enable call, successful or not, is the *)
(* backend told before the register is written.                            *)
C3_EnableOrder ==
    (Returned("enable_module") /\ last.x = 1) =>
        LET dir == last.ch
            c == last.calls
            entry == _get_band_port_map(dir, TRUE, LoOf(last.pre, dir))
        IN  /\ Precedes(c, "rffe_control_write", "enable_module")
            /\ last.status = 0 =>
                  /\ Len(c) = 5
                  /\ c[1] = Call(GetLoFn(dir), 0, 0)
                  /\ c[2] = Call(SetPortFn(dir), entry.ad9361_port, 0)
                  /\ c[3] = Call("rffe_control_read", 0, 0)
                  /\ c[4].fn = "rffe_control_write"
                  /\ TestBit(c[4].a, EnableBit(dir))
                  /\ SpdtOf(c[4].a, dir) = entry.spdt
                  /\ c[5] = Call("enable_module", dir, 1)

C3_Witness ==
    /\ Returned("enable_module")
    /\ last.x = 1
    /\ last.status = 0
    /\ last.ch = BLADERF_RX
    /\ ~_is_rffe_channel_enabled(last.pre.rffe, BLADERF_RX)
    /\ SpdtOf(rffe, BLADERF_RX) = RFFE_CONTROL_SPDT_HIGHBAND

(* C4: in every enable_module(dir, false) call the teardown of dir's       *)
(* stream handle is the first thing done: it comes before every            *)
(* control-register write and before the backend disable; every register   *)
(* value written has dir's enable bit clear and dir's antenna-switch field *)
(* at Shutdown, whatever the frequency; a successful call makes exactly    *)
(* teardown, read, write, backend disable.                                 *)
C4_DisableOrder ==
    (Returned("enable_module") /\ last.x = 0) =>
        LET dir == last.ch
            c == last.calls
        IN  /\ c # <<>> => c[1] = Call("sync_deinit", dir, 0)
            /\ Precedes(c, "sync_deinit", "rffe_control_write")
            /\ Precedes(c, "sync_deinit", "enable_module")
            /\ \A i \in DOMAIN c :
                  c[i].fn = "rffe_control_write" =>
                      /\ ~TestBit(c[i].a, EnableBit(dir))
                      /\ SpdtOf(c[i].a, dir) = RFFE_CONTROL_SPDT_SHUTDOWN
            /\ last.status = 0 =>
                  /\ Len(c) = 4
                  /\ c[2] = Call("rffe_control_read", 0, 0)
                  /\ c[3].fn = "rffe_control_write"
                  /\ c[4] = Call("enable_module", dir, 0)
                  /\ rffe = c[3].a

C4_Witness ==
    /\ Returned("enable_module")
    /\ last.x = 0
    /\ last.status = 0
    /\ last.pre.sync[last.ch]
    /\ _is_rffe_channel_enabled(last.pre.rffe, last.ch)
    /\ SpdtOf(last.pre.rffe, last.ch) = RFFE_CONTROL_SPDT_HIGHBAND
    /\ SpdtOf(rffe, last.ch) = RFFE_CONTROL_SPDT_SHUTDOWN

(* C5 as stated: on an Initialized board no direction has a stream handle  *)
(* while its enable bit is clear.                                          *)
C5_NoHandleWhileDisabled ==
    state = STATE_INITIALIZED =>
        \A dir \in Directions :
            sync[dir] => _is_rffe_channel_enabled(rffe, dir)

(* C5, amended: a direction's stream handle does not exist right after any *)
(* enable_module(dir, false) call that passed the state check, successful  *)
(* or not; sync_config creates the handle whether or not the direction is  *)
(* enabled, so a handle configured before the enable exists while the      *)
(* enable bit is still clear.                                              *)
C5_NoHandleAfterDisable ==
    /\ (/\ Returned("enable_module")
         /\ last.x = 0
         /\ last.status # BLADERF_ERR_NOT_INIT) => ~sync[last.ch]
    /\ (Returned("sync_config") /\ last.status = 0) => sync[last.ch]

C5_Witness ==
    /\ Returned("enable_module")
    /\ last.x = 0
    /\ last.pre.sync[last.ch]
    /\ ~sync[last.ch]
    /\ ~_is_rffe_channel_enabled(last.pre.rffe, last.ch)

(***************************************************************************)
(* Band selection as the hardware shows it.                                *)
(***************************************************************************)
(* The low/high band boundary, 3000 MHz, in kHz.                           *)
BandBoundary == 3000000

RangeBandMap(dir) == IF _is_tx(dir) THEN bladerf2_tx_range_band_map
                     ELSE bladerf2_rx_range_band_map

(* f lies inside dir's band table.                                         *)
InBandTable(dir, f) ==
    \E i \in DOMAIN RangeBandMap(dir) :
        _is_within_range(RangeBandMap(dir)[i].range, f)

(* A call that ran band selection for (last.ch, last.x).                   *)
RanSelectBand ==
    /\ pc = "returned"
    /\ last.op \in {"select_band", "set_frequency"}

(* C6 as stated: a select_band that returns an error has changed neither   *)
(* the front end's port selection nor the antenna-switch fields of the     *)
(* control register.                                                       *)
C6_SelectBandAtomic ==
    (Returned("select_band") /\ last.status < 0) =>
        /\ phy.rx_port = last.pre.phy.rx_port
        /\ phy.tx_port = last.pre.phy.tx_port
        /\ \A dir \in Directions :
              SpdtOf(rffe, dir) = SpdtOf(last.pre.rffe, dir)

(* C7 as stated: band selection for an enabled channel and a frequency in  *)
(* its band table gives Low strictly below the boundary and High at or     *)
(* above it (seen as the antenna-switch code the call leaves).             *)
C7_BoundaryIsHigh ==
    (/\ RanSelectBand
     /\ last.status = 0
     /\ _is_rffe_channel_enabled(rffe, last.ch)
     /\ InBandTable(last.ch, last.x)) =>
        SpdtOf(rffe, last.ch) =
            IF last.x < BandBoundary THEN RFFE_CONTROL_SPDT_LOWBAND
            ELSE RFFE_CONTROL_SPDT_HIGHBAND

(* C7, amended: band selection for an enabled channel and a frequency in   *)
(* its band table gives Low at or below the boundary (the Low range        *)
(* includes 3000 MHz and is scanned first) and High strictly above it.     *)
C7_BoundaryIsLow ==
    (/\ RanSelectBand
     /\ last.status = 0
     /\ _is_rffe_channel_enabled(rffe, last.ch)
     /\ InBandTable(last.ch, last.x)) =>
        SpdtOf(rffe, last.ch) =
            IF last.x <= BandBoundary THEN RFFE_CONTROL_SPDT_LOWBAND
            ELSE RFFE_CONTROL_SPDT_HIGHBAND

C7_Witness ==
    /\ Returned("set_frequency")
    /\ last.status = 0
    /\ last.x = BandBoundary
    /\ _is_rffe_channel_enabled(rffe, last.ch)
    /\ SpdtOf(rffe, last.ch) = RFFE_CONTROL_SPDT_LOWBAND

(* C8: a select_band, or a set_frequency running it, for a channel whose   *)
(* enable bit is clear writes only register values with the channel's      *)
(* antenna-switch field at Shutdown and pushes only port id 0 to the front *)
(* end, whatever the frequency; when it succeeds it has done both.         *)
C8_DisabledIsShutdown ==
    (RanSelectBand /\ ~_is_rffe_channel_enabled(last.pre.rffe, last.ch)) =>
        LET c == last.calls
        IN  /\ \A i \in DOMAIN c :
                  /\ c[i].fn = "rffe_control_write" =>
                        SpdtOf(c[i].a, last.ch) = RFFE_CONTROL_SPDT_SHUTDOWN
                  /\ c[i].fn = SetPortFn(last.ch) => c[i].a = 0
            /\ last.status = 0 =>
                  /\ HasCall(c, "rffe_control_write")
                  /\ HasCall(c, SetPortFn(last.ch))
                  /\ SpdtOf(rffe, last.ch) = RFFE_CONTROL_SPDT_SHUTDOWN
                  /\ PortOf(Board(World), last.ch) = 0

C8_Witness ==
    /\ Returned("set_frequency")
    /\ last.status = 0
    /\ last.x > BandBoundary
    /\ ~_is_rffe_channel_enabled(last.pre.rffe, last.ch)
    /\ SpdtOf(rffe, last.ch) = RFFE_CONTROL_SPDT_SHUTDOWN

(* C9: a successful enable of RX leaves code 0xA in the RX switch field    *)
(* and port B_BALANCED when RX's frequency is below the boundary, code 0x5 *)
(* and port A_BALANCED when it is above; a successful enable of TX leaves  *)
(* the same codes in the TX switch field, with ports TXB and TXA.          *)
C9_EnableCodes ==
    (Returned("enable_module") /\ last.x = 1 /\ last.status = 0) =>
        /\ (last.ch = BLADERF_RX /\ phy.rx_lo < BandBoundary) =>
              /\ GetField(rffe, RFFE_CONTROL_RX_SW_SHIFT) = 10
              /\ phy.rx_port = B_BALANCED
        /\ (last.ch = BLADERF_RX /\ phy.rx_lo > BandBoundary) =>
              /\ GetField(rffe, RFFE_CONTROL_RX_SW_SHIFT) = 5
              /\ phy.rx_port = A_BALANCED
        /\ (last.ch = BLADERF_TX /\ phy.tx_lo < BandBoundary) =>
              /\ GetField(rffe, RFFE_CONTROL_TX_SW_SHIFT) = 10
              /\ phy.tx_port = TXB
        /\ (last.ch = BLADERF_TX /\ phy.tx_lo > BandBoundary) =>
              /\ GetField(rffe, RFFE_CONTROL_TX_SW_SHIFT) = 5
              /\ phy.tx_port = TXA

C9_Witness ==
    /\ Returned("enable_module")
    /\ last.x = 1
    /\ last.status = 0
    /\ last.ch = BLADERF_RX
    /\ phy.rx_lo = 70000
    /\ phy.rx_port = B_BALANCED
    /\ phy.tx_lo = 200000
    /\ _is_rffe_channel_enabled(rffe, BLADERF_TX)
    /\ phy.tx_port = TXB

(* The antenna-switch code of a band.                                      *)
SpdtOfBand(dir, band) ==
    LET port_map == IF _is_tx(dir) THEN bladerf2_tx_band_port_map
                    ELSE bladerf2_rx_band_port_map
    IN  (CHOOSE e \in {port_map[i] : i \in DOMAIN port_map} :
             e.band = band).spdt

(* C10: while every enable_module and set_frequency call since the last    *)
(* successful initialization has succeeded, each direction's               *)
(* antenna-switch field is Shutdown when its enable bit is clear and the   *)
(* code of a band whose range contains its front-end frequency when the    *)
(* bit is set; right after a successful initialization both enable bits    *)
(* are clear and both fields are Shutdown.                                 *)
C10_SwitchFollowsBand ==
    /\ (sinceInitOk /\ state = STATE_INITIALIZED) =>
          \A dir \in Directions :
              IF _is_rffe_channel_enabled(rffe, dir)
              THEN \E i \in DOMAIN RangeBandMap(dir) :
                       /\ _is_within_range(RangeBandMap(dir)[i].range,
                                           LoOf(Board(World), dir))
                       /\ SpdtOf(rffe, dir) =
                              SpdtOfBand(dir, RangeBandMap(dir)[i].band)
              ELSE SpdtOf(rffe, dir) = RFFE_CONTROL_SPDT_SHUTDOWN
    /\ (/\ pc = "returned"
         /\ last.op \in {"open", "load_fpga"}
         /\ last.status = 0
         /\ state = STATE_INITIALIZED) =>
          \A dir \in Directions :
              /\ ~_is_rffe_channel_enabled(rffe, dir)
              /\ SpdtOf(rffe, dir) = RFFE_CONTROL_SPDT_SHUTDOWN

C10_Witness ==
    /\ sinceInitOk
    /\ Returned("set_frequency")
    /\ last.ch = BLADERF_RX
    /\ _is_rffe_channel_enabled(last.pre.rffe, BLADERF_RX)
    /\ SpdtOf(last.pre.rffe, BLADERF_RX) = RFFE_CONTROL_SPDT_LOWBAND
    /\ SpdtOf(rffe, BLADERF_RX) = RFFE_CONTROL_SPDT_HIGHBAND
    /\ ~_is_rffe_channel_enabled(rffe, BLADERF_TX)
    /\ SpdtOf(rffe, BLADERF_TX) = RFFE_CONTROL_SPDT_SHUTDOWN

(***************************************************************************)
(* Enabling twice.                                                         *)
(***************************************************************************)
(* The call that returned repeats the successful enable before it.         *)
EnabledAgain ==
    /\ Returned("enable_module")
    /\ last.x = 1
    /\ last.status = 0
    /\ prev = [op |-> "enable_module", ch |-> last.ch, x |-> 1]

(* C11: when a successful enable_module(dir, true) directly follows a      *)
(* successful enable_module(dir, true), the control register after the     *)
(* second call equals the register after the first.                        *)
C11_EnableIdempotent == EnabledAgain => rffe = last.pre.rffe

C11_Witness ==
    /\ EnabledAgain
    /\ last.ch = BLADERF_RX
    /\ HasCall(last.calls, "rffe_control_write")
    /\ _is_rffe_channel_enabled(rffe, BLADERF_TX)
    /\ rffe = last.pre.rffe

(***************************************************************************)
(* Retuning.                                                               *)
(***************************************************************************)
(* The limits of the frequency range of either direction, in kHz.          *)
FrequencyMin == 70000
FrequencyMax == 6000000

SetLoFn(dir) == IF _is_tx(dir) THEN "ad9361_set_tx_lo_freq"
                ELSE "ad9361_set_rx_lo_freq"

(* C12: on an Initialized board set_frequency with a frequency outside     *)
(* 70 MHz .. 6000 MHz returns the range error, makes no collaborator call  *)
(* and leaves the local oscillator, the port and the control register as   *)
(* they were; with a frequency inside (limits included) its first call     *)
(* sets the local oscillator to the frequency, and band selection follows  *)
(* only after that succeeded: a successful call leaves the oscillator at   *)
(* the frequency and the switch field and port of the band selected for    *)
(* it.                                                                     *)
C12_RangeThenLoThenBand ==
    (Returned("set_frequency") /\ last.pre.state = STATE_INITIALIZED) =>
        LET c == last.calls
            sel == _get_band_port_map(
                       last.ch,
                       _is_rffe_channel_enabled(last.pre.rffe, last.ch),
                       last.x)
        IN  IF last.x < FrequencyMin \/ last.x > FrequencyMax
            THEN /\ last.status = BLADERF_ERR_RANGE
                 /\ c = <<>>
                 /\ phy = last.pre.phy
                 /\ rffe = last.pre.rffe
            ELSE /\ last.status # BLADERF_ERR_RANGE
                 /\ Len(c) >= 1
                 /\ c[1].fn = SetLoFn(last.ch)
                 /\ c[1].a = last.x
                 /\ Len(c) > 1 => /\ LoOf(Board(World), last.ch) = last.x
                                  /\ c[2].fn = "rffe_control_read"
                 /\ last.status = 0 =>
                       /\ Len(c) = 4
                       /\ LoOf(Board(World), last.ch) = last.x
                       /\ SpdtOf(rffe, last.ch) = sel.spdt
                       /\ PortOf(Board(World), last.ch) = sel.ad9361_port

C12_Witness ==
    /\ Returned("set_frequency")
    /\ last.x = 6000001
    /\ last.status = BLADERF_ERR_RANGE
    /\ _is_rffe_channel_enabled(rffe, last.ch)
    /\ LoOf(Board(World), last.ch) = FrequencyMax

(***************************************************************************)
(* The low-level accessors and the device lock.                            *)
(***************************************************************************)
(* C13: a low-level accessor returns with the device lock released on      *)
(* every path; one that fails argument validation (null device, foreign    *)
(* board, null output pointer) has never taken the lock, and one that      *)
(* passes it has taken the lock once, whether it then succeeds, finds the  *)
(* board state insufficient or fails in the transport.                     *)
C13_LockReleased ==
    (pc = "returned" /\ last.op \in Accessors) =>
        /\ ~lock
        /\ IF last.args = "ok" THEN last.nlock = 1
           ELSE last.nlock = 0 /\ last.calls = <<>> /\ last.status < 0

C13_Witness ==
    /\ Returned("ad9361_write")
    /\ last.args = "ok"
    /\ last.pre.state >= STATE_FPGA_LOADED
    /\ last.status < 0
    /\ last.nlock = 1
    /\ ~lock

InTransport == {t \in Threads : threads[t].pc = "in_transport"}

AllEnabled ==
    \A t \in Threads : threads[t].pc = "e_done" /\ threads[t].status = 0

(* C15: when threads enable RX and TX concurrently, each call made with    *)
(* the device lock held by its caller, then once all calls have returned   *)
(* successfully both enable bits are set and each direction's switch       *)
(* field holds the code of the band of its own frequency: no update of     *)
(* the control register is lost.                                           *)
C15_NoLostUpdate ==
    AllEnabled =>
        \A dir \in Directions :
            /\ _is_rffe_channel_enabled(rffe, dir)
            /\ SpdtOf(rffe, dir) =
                  _get_band_port_map(dir, TRUE, LoOf(Board(World), dir)).spdt

C15_Witness ==
    /\ AllEnabled
    /\ SpdtOf(rffe, BLADERF_RX) = RFFE_CONTROL_SPDT_HIGHBAND
    /\ SpdtOf(rffe, BLADERF_TX) = RFFE_CONTROL_SPDT_LOWBAND

(***************************************************************************)
(* Gain.  A gain range's frequency is in kHz like every frequency here;    *)
(* its gain is in the units of the source.                                 *)
(***************************************************************************)
bladerf2_rx_gain_ranges ==
    << [frequency |-> Range(0, 1300000, 1, 1, 1),
        gain      |-> Range(1, 77, 1, 1, 1)],
       [frequency |-> Range(1300000, 4000000, 1, 1, 1),
        gain      |-> Range(0 - 4, 71, 1, 1, 1)],
       [frequency |-> Range(4000000, 6000000, 1, 1, 1),
        gain      |-> Range(0 - 10, 62, 1, 1, 1)] >>

bladerf2_tx_gain_range == Range(0 - 89750, 0, 250, 1, 1000)

(* Conversion of a quotient or product to an integer type: the fractional  *)
(* part is discarded.                                                      *)
TruncDiv(a, b) == IF a >= 0 THEN a \div b ELSE 0 - ((0 - a) \div b)

(* value / range->scale and value * range->scale, converted to an integer. *)
DivScale(value, range) == TruncDiv(value * range.den, range.num)
MulScale(value, range) == TruncDiv(value * range.num, range.den)

(* A clamp that rounds the scaled bounds down instead of towards zero.      *)
_clamp_to_range_Floor(range, value) ==
    LET low  == IF value * range.den < range.min * range.num
                THEN (range.min * range.num) \div range.den ELSE value
    IN  IF low * range.den > range.max * range.num
        THEN (range.max * range.num) \div range.den ELSE low

_clamp_to_range(range, value) ==
    LET low  == IF value * range.den < range.min * range.num
                THEN MulScale(range.min, range) ELSE value
    IN  IF low * range.den > range.max * range.num
        THEN MulScale(range.max, range) ELSE low

(* Front end: the gain of an RX sub-channel and the attenuation (mdB) of a *)
(* TX sub-channel are kept as set.                                         *)
ad9361_set_rx_rf_gain(w, sub, gain, failAt) ==
    IF Fail(w, failAt)
    THEN Ret(Issue(w, Call("ad9361_set_rx_rf_gain", sub, gain)), PhyErr)
    ELSE Ret([Issue(w, Call("ad9361_set_rx_rf_gain", sub, gain))
                 EXCEPT !.phy.rx_gain[sub] = gain], 0)

ad9361_get_rx_rf_gain(w, sub, failAt) ==
    IF Fail(w, failAt)
    THEN Ret(Issue(w, Call("ad9361_get_rx_rf_gain", sub, 0)), PhyErr)
    ELSE RetVal(Issue(w, Call("ad9361_get_rx_rf_gain", sub, 0)), 0,
                w.phy.rx_gain[sub])

ad9361_set_tx_attenuation(w, sub, attenuation, failAt) ==
    IF Fail(w, failAt)
    THEN Ret(Issue(w, Call("ad9361_set_tx_attenuation", sub, attenuation)),
             PhyErr)
    ELSE Ret([Issue(w, Call("ad9361_set_tx_attenuation", sub, attenuation))
                 EXCEPT !.phy.tx_atten[sub] = attenuation], 0)

ad9361_get_tx_attenuation(w, sub, failAt) ==
    IF Fail(w, failAt)
    THEN Ret(Issue(w, Call("ad9361_get_tx_attenuation", sub, 0)), PhyErr)
    ELSE RetVal(Issue(w, Call("ad9361_get_tx_attenuation", sub, 0)), 0,
                w.phy.tx_atten[sub])

(* The scan of the RX table: the gain range of the first entry whose       *)
(* frequency range holds the frequency.                                    *)
RxGainRangeScan(r) ==
    LET Hit(e) == _is_within_range(e.frequency, r.val)
        i == FirstIndex(bladerf2_rx_gain_ranges, Hit)
    IN  IF i = 0 THEN Ret(r.w, BLADERF_ERR_RANGE)
        ELSE RetVal(r.w, 0, bladerf2_rx_gain_ranges[i].gain)

(* A scan that returns the last entry that holds the frequency.            *)
bladerf2_get_gain_range_LastMatch(w, ch, range_null, failAt) ==
    IF range_null THEN Ret(w, BLADERF_ERR_INVAL)
    ELSE IF CHECK_BOARD_STATE(w, STATE_INITIALIZED)
    THEN Ret(w, BLADERF_ERR_NOT_INIT)
    ELSE IF _is_tx(ch) THEN RetVal(w, 0, bladerf2_tx_gain_range)
    ELSE Try(bladerf2_get_frequency(w, ch, failAt), LAMBDA r :
             LET hits == {i \in 1 .. Len(bladerf2_rx_gain_ranges) :
                            _is_within_range(
                                bladerf2_rx_gain_ranges[i].frequency, r.val)}
             IN  IF hits = {} THEN Ret(r.w, BLADERF_ERR_RANGE)
                 ELSE RetVal(r.w, 0,
                        bladerf2_rx_gain_ranges[
                            CHOOSE i \in hits : \A j \in hits : j <= i].gain))

bladerf2_get_gain_range(w, ch, range_null, failAt) ==
    IF range_null THEN Ret(w, BLADERF_ERR_INVAL)
    ELSE IF CHECK_BOARD_STATE(w, STATE_INITIALIZED)
    THEN Ret(w, BLADERF_ERR_NOT_INIT)
    ELSE IF _is_tx(ch) THEN RetVal(w, 0, bladerf2_tx_gain_range)
    ELSE Try(bladerf2_get_frequency(w, ch, failAt), RxGainRangeScan)

(* A TX gain sent to the front end as it is, without the sign change.      *)
bladerf2_set_gain_NoNegate(w, ch, gain, failAt) ==
    IF CHECK_BOARD_STATE(w, STATE_INITIALIZED)
    THEN Ret(w, BLADERF_ERR_NOT_INIT)
    ELSE
    Try(bladerf2_get_gain_range(w, ch, FALSE, failAt), LAMBDA range :
    IF _is_tx(ch)
    THEN TryAd(ad9361_set_tx_attenuation(range.w, SubChannel(ch),
                   DivScale(_clamp_to_range(range.val, gain), range.val),
                   failAt), Done)
    ELSE TryAd(ad9361_set_rx_rf_gain(range.w, SubChannel(ch),
                   DivScale(_clamp_to_range(range.val, gain), range.val),
                   failAt), Done))

bladerf2_set_gain(w, ch, gain, failAt) ==
    IF CHECK_BOARD_STATE(w, STATE_INITIALIZED)
    THEN Ret(w, BLADERF_ERR_NOT_INIT)
    ELSE
    Try(bladerf2_get_gain_range(w, ch, FALSE, failAt), LAMBDA range :
    IF _is_tx(ch)
    THEN TryAd(ad9361_set_tx_attenuation(range.w, SubChannel(ch),
                   DivScale(0 - _clamp_to_range(range.val, gain), range.val),
                   failAt), Done)
    ELSE TryAd(ad9361_set_rx_rf_gain(range.w, SubChannel(ch),
                   DivScale(_clamp_to_range(range.val, gain), range.val),
                   failAt), Done))

(* "int my_gain = 0;" is the value the RX branch rescales: the front end's *)
(* answer goes to *gain, which the last statement overwrites with my_gain. *)
my_gain_initial == 0

bladerf2_get_gain(w, ch, failAt) ==
    IF CHECK_BOARD_STATE(w, STATE_INITIALIZED)
    THEN Ret(w, BLADERF_ERR_NOT_INIT)
    ELSE
    Try(bladerf2_get_gain_range(w, ch, FALSE, failAt), LAMBDA range :
    IF _is_tx(ch)
    THEN TryAd(ad9361_get_tx_attenuation(range.w, SubChannel(ch), failAt),
               LAMBDA atten :
                   RetVal(atten.w, 0, 0 - MulScale(atten.val, range.val)))
    ELSE TryAd(ad9361_get_rx_rf_gain(range.w, SubChannel(ch), failAt),
               LAMBDA rx :
                   RetVal(rx.w, 0, MulScale(my_gain_initial, range.val))))

(***************************************************************************)
(* The gain operations over a board that is retuned between them.          *)
(***************************************************************************)
MaxFailAtGain == 2
FailAtsGain == 0 .. MaxFailAtGain

(* One frequency inside each RX entry, and the two shared boundaries.      *)
GainFreqInputs == {1000000, 1300000, 1500000, 4000000, 5000000}

(* Gains around the ends of every gain range.                              *)
RxGainInputs == {0 - 11, 0 - 4, 30, 77, 78}
TxGainInputs == {0 - 100, 0 - 30, 0, 5}

(* Parameter blocks: the second one asks for a receive frequency beyond    *)
(* the last entry of the RX gain table.                                    *)
GainParamChoices ==
    { [rx_synth_freq |-> 2400000, tx_synth_freq |-> 2400000,
       rx_rf_port_input_select |-> A_BALANCED,
       tx_rf_port_input_select |-> TXA,
       gc_rx1_mode |-> RF_GAIN_SLOWATTACK_AGC,
       gc_rx2_mode |-> RF_GAIN_SLOWATTACK_AGC],
      [rx_synth_freq |-> 6000001, tx_synth_freq |-> 2400000,
       rx_rf_port_input_select |-> B_BALANCED,
       tx_rf_port_input_select |-> TXB,
       gc_rx1_mode |-> RF_GAIN_SLOWATTACK_AGC,
       gc_rx2_mode |-> RF_GAIN_SLOWATTACK_AGC] }

SetGain(chs, gains, fails) ==
    /\ pc = "idle" /\ opened = "open"
    /\ \E ch \in chs, gain \in gains, failAt \in fails :
         LET r == bladerf2_set_gain(World, ch, gain, failAt)
         IN  /\ Commit(r)
             /\ last' = Op("set_gain", ch, gain, "ok", r)
             /\ UNCHANGED <<opened, sinceInitOk>>

GetGain(chs, fails) ==
    /\ pc = "idle" /\ opened = "open"
    /\ \E ch \in chs, failAt \in fails :
         LET r == bladerf2_get_gain(World, ch, failAt)
         IN  /\ Commit(r)
             /\ last' = Op("get_gain", ch, 0, "ok", r)
             /\ UNCHANGED <<opened, sinceInitOk>>

GetGainRange(chs, fails) ==
    /\ pc = "idle" /\ opened = "open"
    /\ \E ch \in chs, range_null \in BOOLEAN, failAt \in fails :
         LET r == bladerf2_get_gain_range(World, ch, range_null, failAt)
         IN  /\ Commit(r)
             /\ last' = Op("get_gain_range", ch, 0,
                           IF range_null THEN "null_ptr" ELSE "ok", r)
             /\ UNCHANGED <<opened, sinceInitOk>>

InitGain ==
    /\ opened = "closed"
    /\ state = STATE_UNINITIALIZED
    /\ capabilities = {}
    /\ phy = NullPhy
    /\ sync = [d \in Directions |-> FALSE]
    /\ rffe = 0
    /\ fpga_configured = TRUE
    /\ lock = FALSE
    /\ ad9361_init_params \in GainParamChoices
    /\ pc = "idle"
    /\ last = NoOp
    /\ sinceInitOk = FALSE
    /\ prev = NoPrev
    /\ threads = [t \in Threads |-> NoCall]
    /\ holder = 0

NextGain ==
    \/ Open(OpenEnvsOk, {0})
    \/ SetFrequency({BLADERF_RX}, GainFreqInputs, {0})
    \/ SetGain({0}, RxGainInputs, FailAtsGain)
    \/ SetGain({2}, {30}, {0})
    \/ SetGain({1}, TxGainInputs, {0})
    \/ GetGain({0}, FailAtsGain)
    \/ GetGain({1, 2}, {0})
    \/ GetGainRange({0, 1}, FailAtsGain)
    \/ Return([op : {"set_gain"}, ch : {0, 1, 2},
               x : RxGainInputs \cup TxGainInputs])

SpecGain == InitGain /\ [][NextGain]_vars

(***************************************************************************)
(* Gain properties.                                                        *)
(***************************************************************************)
GainRangeAt(b, ch) ==
    IF _is_tx(ch) THEN bladerf2_tx_gain_range
    ELSE LET Hit(e) == _is_within_range(e.frequency, LoOf(b, ch))
             hits == {i \in 1 .. 3 : Hit(bladerf2_rx_gain_ranges[i])}
         IN  bladerf2_rx_gain_ranges[
                 CHOOSE i \in hits : \A j \in hits : i <= j].gain

(* get_gain returned right after a successful set_gain on the same         *)
(* channel.                                                                *)
GetAfterSet ==
    /\ Returned("get_gain") /\ last.status = 0
    /\ prev.op = "set_gain" /\ prev.ch = last.ch

(* C16: on an initialized board, at a frequency of any of the three RX     *)
(* entries, a successful set_gain(RX channel, g) with g inside the entry's *)
(* gain range, followed by get_gain on the same channel, returns g.        *)
C16_RxGainRoundTrip ==
    (/\ GetAfterSet /\ ~_is_tx(last.ch)
     /\ prev.x >= GainRangeAt(last.pre, last.ch).min
     /\ prev.x <= GainRangeAt(last.pre, last.ch).max)
        => last.val = prev.x

(* C16's own example: 1500 MHz on RX0, set 30, get.                        *)
C16_Example ==
    /\ GetAfterSet /\ last.ch = 0 /\ prev.x = 30
    /\ last.pre.phy.rx_lo = 1500000 /\ last.pre.phy.rx_gain[0] = 30

(* The attenuation the front end holds for a TX channel.                   *)
TxAttenOf(b, ch) == b.phy.tx_atten[SubChannel(ch)]

ExpectedRxGain(f) ==
    IF 0 <= f /\ f <= 1300000 THEN <<1, 77>>
    ELSE IF 1300000 <= f /\ f <= 4000000 THEN <<0 - 4, 71>>
    ELSE IF 4000000 <= f /\ f <= 6000000 THEN <<0 - 10, 62>>
    ELSE <<>>

(* get_gain_range on an initialized board whose front end answered.        *)
RangeAnswered ==
    /\ Returned("get_gain_range") /\ last.args = "ok"
    /\ last.pre.state = STATE_INITIALIZED
    /\ last.status # BLADERF_ERR_UNEXPECTED

(* C18: get_gain_range returns the fixed TX range for a TX channel; for an *)
(* RX channel the gain range of the first table entry whose frequency      *)
(* range holds the current frequency (the earlier entry on a shared        *)
(* boundary), and the range error if no entry holds it.                    *)
C18_GainRangeFirstMatch ==
    RangeAnswered =>
       IF _is_tx(last.ch)
       THEN /\ last.status = 0
            /\ last.val = [min |-> 0 - 89750, max |-> 0, step |-> 250,
                           num |-> 1, den |-> 1000]
       ELSE IF ExpectedRxGain(last.pre.phy.rx_lo) = <<>>
       THEN last.status = BLADERF_ERR_RANGE
       ELSE /\ last.status = 0
            /\ last.val = [min |-> ExpectedRxGain(last.pre.phy.rx_lo)[1],
                           max |-> ExpectedRxGain(last.pre.phy.rx_lo)[2],
                           step |-> 1, num |-> 1, den |-> 1]

C18_Witness ==
    /\ RangeAnswered /\ last.ch = 0 /\ last.status = 0
    /\ last.pre.phy.rx_lo = 4000000
    /\ last.val.min = 0 - 4 /\ last.val.max = 71

(* The frequency the front end reports lies in no entry of the table.      *)
C18_NoEntry ==
    /\ RangeAnswered /\ last.ch = 0
    /\ last.status = BLADERF_ERR_RANGE

(***************************************************************************)
(* DC/phase/gain correction.                                               *)
(***************************************************************************)
(* Front end: the active port, and raw SPI register access; a successful   *)
(* ad9361_spi_read returns the register's value as its status.             *)
ad9361_get_rf_port(w, tx, failAt) ==
    IF Fail(w, failAt)
    THEN Ret(Issue(w, Call(IF tx THEN "ad9361_get_tx_rf_port_output"
                           ELSE "ad9361_get_rx_rf_port_input", 0, 0)),
             PhyErr)
    ELSE RetVal(Issue(w, Call(IF tx THEN "ad9361_get_tx_rf_port_output"
                              ELSE "ad9361_get_rx_rf_port_input", 0, 0)), 0,
                IF tx THEN w.phy.tx_port ELSE w.phy.rx_port)

ad9361_spi_read(w, reg, failAt) ==
    IF Fail(w, failAt)
    THEN Ret(Issue(w, Call("ad9361_spi_read", reg, 0)), PhyErr)
    ELSE RetVal(Issue(w, Call("ad9361_spi_read", reg, 0)),
                w.phy.regs[reg], w.phy.regs[reg])

ad9361_spi_write(w, reg, data, failAt) ==
    IF Fail(w, failAt)
    THEN Ret(Issue(w, Call("ad9361_spi_write", reg, data)), PhyErr)
    ELSE Ret([Issue(w, Call("ad9361_spi_write", reg, data))
                 EXCEPT !.phy.regs[reg] = data], 0)

(* (x >> lo) & (2^n - 1)                                                   *)
Bits(x, lo, n) == (x \div Pow2(lo)) % Pow2(n)

(* Conversions to uint16_t and to int16_t.                                 *)
U16(x) == x % 65536
I16(x) == IF U16(x) >= 32768 THEN U16(x) - 65536 ELSE U16(x)

(* "Validate channel" and "Validate correction": 0 if both pass.           *)
CorrArgs(ch, corr) ==
    IF ch \notin Channels THEN BLADERF_ERR_INVAL
    ELSE IF corr \notin Corrections THEN BLADERF_ERR_UNSUPPORTED
    ELSE 0

(* A band lookup that accepts every RX port.                               *)
CorrLowBand_AnyPort(w, ch, failAt) ==
    TryAd(ad9361_get_rf_port(w, _is_tx(ch), failAt), LAMBDA mode :
        IF _is_tx(ch) THEN RetVal(mode.w, 0, mode.val = TXA)
        ELSE RetVal(mode.w, 0, mode.val = A_BALANCED))

(* "Look up band": val is low_band.                                        *)
CorrLowBand(w, ch, failAt) ==
    TryAd(ad9361_get_rf_port(w, _is_tx(ch), failAt), LAMBDA mode :
        IF _is_tx(ch) THEN RetVal(mode.w, 0, mode.val = TXA)
        ELSE IF mode.val \notin {A_BALANCED, B_BALANCED, C_BALANCED}
        THEN Ret(mode.w, BLADERF_ERR_UNSUPPORTED)
        ELSE RetVal(mode.w, 0, mode.val = A_BALANCED))

(* A bool used as an array index, plus one.                                *)
BoolIndex(b) == IF b THEN 2 ELSE 1

(* The RX DC offset path is taken.                                         *)
IsRxDcoff(ch, corr) ==
    /\ corr \in {BLADERF_CORR_DCOFF_I, BLADERF_CORR_DCOFF_Q}
    /\ ch % 2 = BLADERF_RX

RxDcoffRegs(ch, low_band, corr) ==
    ad9361_correction_rx_dcoff_reg_table[(ch \div 2) + 1][BoolIndex(low_band)][
        BoolIndex(corr = BLADERF_CORR_DCOFF_Q)]

CorrReg(ch, corr, low_band) ==
    ad9361_correction_reg_table[ch + 1][corr + 1].reg[BoolIndex(low_band)]

CorrShift(ch, corr) == ad9361_correction_reg_table[ch + 1][corr + 1].shift

(* "Sign extend value" of the RX DC offset path and of shift 5: bit 12.    *)
SignExtend12(data) ==
    I16(IF Bits(data, 12, 1) = 1 THEN (data % 4096) + 61440 ELSE data)

(* "Sign extend value" of shift 6: bit 13.                                 *)
SignExtend13(data) ==
    I16(IF Bits(data, 13, 1) = 1 THEN (data % 16384) + 49152 ELSE data)

(* The two registers' 10-bit value.                                        *)
RxDcoffUnpack(ch, is_q, data_top, data_bot) ==
    IF ch = 0
    THEN IF ~is_q THEN Bits(data_top, 0, 4) * 64 + (data_bot \div 4)
         ELSE Bits(data_top, 0, 2) * 256 + data_bot
    ELSE IF ~is_q THEN data_top * 4 + Bits(data_bot, 0, 2)
         ELSE data_top * 16 + (data_bot \div 16)

(* "Modify registers": the new top and bottom bytes.                       *)
RxDcoffPack(ch, is_q, data, data_top, data_bot) ==
    IF ch = 0
    THEN IF ~is_q
         THEN [top |-> (data_top - (data_top % 16)) + Bits(data, 6, 4),
               bot |-> (data_bot % 4) + Bits(data, 0, 6) * 4]
         ELSE [top |-> (data_top - (data_top % 4)) + Bits(data, 8, 2),
               bot |-> Bits(data, 0, 8)]
    ELSE IF ~is_q
         THEN [top |-> Bits(data, 2, 8),
               bot |-> (data_bot - (data_bot % 4)) + Bits(data, 0, 2)]
         ELSE [top |-> Bits(data, 6, 2) * 64 + Bits(data, 4, 6),
               bot |-> Bits(data, 0, 4) + Bits(data, 0, 4) * 16]

(* Sign extension of the single-register path that tests bit 12 whatever   *)
(* the shift.                                                              *)
CorrDecode_Bit12(status, shift) == SignExtend12(U16(status * Pow2(shift)))

(* "Scale 8-bit to 12-bit/13-bit" and "Sign extend value".                 *)
CorrDecode(status, shift) ==
    IF shift = 5 THEN SignExtend12(U16(status * Pow2(shift)))
    ELSE SignExtend13(U16(status * Pow2(shift)))

(* A scaling that rounds to the nearest multiple instead of shifting.        *)
CorrEncode_Nearest(value, shift) ==
    Bits(value + Pow2(shift - 1), shift, 8)

(* "Scale 12-bit/13-bit to 8-bit": (value >> shift) & 0xff                  *)
CorrEncode(value, shift) == Bits(value, shift, 8)

bladerf2_get_correction(w, ch, corr, value_null, failAt) ==
    IF value_null THEN Ret(w, BLADERF_ERR_INVAL)
    ELSE IF CHECK_BOARD_STATE(w, STATE_INITIALIZED)
    THEN Ret(w, BLADERF_ERR_NOT_INIT)
    ELSE IF CorrArgs(ch, corr) # 0 THEN Ret(w, CorrArgs(ch, corr))
    ELSE
    Try(CorrLowBand(w, ch, failAt), LAMBDA band :
    IF IsRxDcoff(ch, corr)
    THEN
      TryAd(ad9361_spi_read(band.w, RxDcoffRegs(ch, band.val, corr).reg_top,
                            failAt), LAMBDA top :
      TryAd(ad9361_spi_read(top.w, RxDcoffRegs(ch, band.val, corr).reg_bot,
                            failAt), LAMBDA bot :
      RetVal(bot.w, 0,
             SignExtend12(U16(RxDcoffUnpack(ch, corr = BLADERF_CORR_DCOFF_Q,
                                            top.val, bot.val) * 8)))))
    ELSE
      TryAd(ad9361_spi_read(band.w, CorrReg(ch, corr, band.val), failAt),
            LAMBDA reg :
      RetVal(reg.w, 0, CorrDecode(reg.val, CorrShift(ch, corr)))))

(* A force-bit write that does not keep the register's other bits.         *)
CorrForce_Overwrite(w, ch, corr, low_band, failAt) ==
    TryAd(ad9361_spi_read(w, IF _is_tx(ch) THEN "REG_TX_FORCE_BITS"
                             ELSE "REG_FORCE_BITS", failAt), LAMBDA force :
    TryAd(ad9361_spi_write(force.w,
              IF _is_tx(ch) THEN "REG_TX_FORCE_BITS" ELSE "REG_FORCE_BITS",
              Pow2(ad9361_correction_force_bit[SubChannel(ch) + 1][
                       corr + 1][BoolIndex(low_band)]),
              failAt), Done))

(* "Read force bit register", "Modify register", "Write force bit          *)
(* register".                                                              *)
CorrForce(w, ch, corr, low_band, failAt) ==
    TryAd(ad9361_spi_read(w, IF _is_tx(ch) THEN "REG_TX_FORCE_BITS"
                             ELSE "REG_FORCE_BITS", failAt), LAMBDA force :
    TryAd(ad9361_spi_write(force.w,
              IF _is_tx(ch) THEN "REG_TX_FORCE_BITS" ELSE "REG_FORCE_BITS",
              SetBit(force.val,
                     ad9361_correction_force_bit[SubChannel(ch) + 1][
                         corr + 1][BoolIndex(low_band)]),
              failAt), Done))

bladerf2_set_correction(w, ch, corr, value, failAt) ==
    IF CHECK_BOARD_STATE(w, STATE_INITIALIZED)
    THEN Ret(w, BLADERF_ERR_NOT_INIT)
    ELSE IF CorrArgs(ch, corr) # 0 THEN Ret(w, CorrArgs(ch, corr))
    ELSE
    Try(CorrLowBand(w, ch, failAt), LAMBDA band :
    IF IsRxDcoff(ch, corr)
    THEN
      TryAd(ad9361_spi_read(band.w, RxDcoffRegs(ch, band.val, corr).reg_top,
                            failAt), LAMBDA top :
      TryAd(ad9361_spi_read(top.w, RxDcoffRegs(ch, band.val, corr).reg_bot,
                            failAt), LAMBDA bot :
      TryAd(ad9361_spi_write(bot.w, RxDcoffRegs(ch, band.val, corr).reg_top,
                RxDcoffPack(ch, corr = BLADERF_CORR_DCOFF_Q,
                            U16(value \div 8), top.val, bot.val).top,
                failAt), LAMBDA wtop :
      TryAd(ad9361_spi_write(wtop.w, RxDcoffRegs(ch, band.val, corr).reg_bot,
                RxDcoffPack(ch, corr = BLADERF_CORR_DCOFF_Q,
                            U16(value \div 8), top.val, bot.val).bot,
                failAt), LAMBDA wbot :
      CorrForce(wbot.w, ch, corr, band.val, failAt)))))
    ELSE
      TryAd(ad9361_spi_write(band.w, CorrReg(ch, corr, band.val),
                             CorrEncode(value, CorrShift(ch, corr)), failAt),
            LAMBDA wreg :
      CorrForce(wreg.w, ch, corr, band.val, failAt)))

(***************************************************************************)
(* The correction operations.  A correction is set on a register file as   *)
(* the calibration left it, and read back; the active ports stay as the    *)
(* parameter block chose them.  A channel and a correction kind make a     *)
(* cell, ch * 4 + corr, which is what last.ch and prev.ch hold.            *)
(***************************************************************************)
MaxFailAtCorr == 7
FailAtsCorr == 0 .. MaxFailAtCorr

Cell(ch, corr) == ch * 4 + corr
CellCh(cell) == cell \div 4
CellCorr(cell) == cell % 4

(* Every byte of the register file before the first correction.            *)
PriorContents == {165, 90}

Pristine(regs) == \E p \in PriorContents : regs = [a \in CorrRegs |-> p]

(* No correction has changed the register file or is waiting to be read    *)
(* back.                                                                   *)
Untouched == Pristine(phy.regs) /\ prev = NoPrev

(* All multiples of 2^shift an 8-bit register can hold, and all multiples  *)
(* of 8 of the signed 13-bit range.                                        *)
CorrValues(shift) == {b * Pow2(shift) : b \in (0 - 128) .. 127}
RxDcoffValues == {d * 8 : d \in (0 - 512) .. 511}

(* TX DC offsets between the multiples of 2^5.                             *)
OffGridValues == {0 - 4095, 0 - 100, 0 - 17, 0 - 1, 1, 16, 100, 112, 120, 4063}

SetCorrection(chs, corrs, values, fails) ==
    /\ pc = "idle" /\ opened = "open"
    /\ Untouched
    /\ \E ch \in chs, corr \in corrs, value \in values, failAt \in fails :
         LET r == bladerf2_set_correction(World, ch, corr, value, failAt)
         IN  /\ Commit(r)
             /\ last' = Op("set_correction", Cell(ch, corr), value, "ok", r)
             /\ UNCHANGED <<opened, sinceInitOk>>

GetCorrection(chs, corrs, fails) ==
    /\ pc = "idle" /\ opened = "open"
    /\ \E ch \in chs, corr \in corrs, value_null \in BOOLEAN,
          failAt \in fails :
         LET r == bladerf2_get_correction(World, ch, corr, value_null,
                                          failAt)
         IN  /\ Commit(r)
             /\ last' = Op("get_correction", Cell(ch, corr), 0,
                           IF value_null THEN "null_ptr" ELSE "ok", r)
             /\ UNCHANGED <<opened, sinceInitOk>>

(* The correction that was just set.                                       *)
JustSet(ch, corr) ==
    prev.op = "set_correction" /\ prev.ch = Cell(ch, corr)

(* Boards the corrections are explored on: opened and initialized, with    *)
(* every register byte p, and either as open leaves it (both directions    *)
(* shut down: ports A_BALANCED and TXA) or with both directions enabled at *)
(* 2400 MHz (ports B_BALANCED and TXB).                                    *)
CorrParams ==
    CHOOSE params \in InitParamChoices : params.rx_synth_freq = 2400000

BlankBoard(p) ==
    [state |-> STATE_UNINITIALIZED, capabilities |-> {},
     phy |-> [NullPhy EXCEPT !.regs = [a \in CorrRegs |-> p]],
     sync |-> [d \in Directions |-> FALSE], rffe |-> 0,
     fpga_configured |-> TRUE, lock |-> FALSE, calls |-> <<>>, k |-> 0,
     nlock |-> 0]

OpenedBoard(p) ==
    bladerf2_open(BlankBoard(p), CHOOSE e \in OpenEnvsOk : TRUE, CorrParams,
                  0).w

EnabledBoard(p) ==
    bladerf2_enable_module(
        bladerf2_enable_module(OpenedBoard(p), BLADERF_RX, TRUE, 0).w,
        BLADERF_TX, TRUE, 0).w

InitCorr ==
    /\ opened = "open"
    /\ \E w \in {OpenedBoard(p) : p \in PriorContents}
                \cup {EnabledBoard(p) : p \in PriorContents} :
          /\ state = w.state
          /\ capabilities = w.capabilities
          /\ phy = w.phy
          /\ sync = w.sync
          /\ rffe = w.rffe
          /\ fpga_configured = w.fpga_configured
          /\ lock = w.lock
    /\ ad9361_init_params = CorrParams
    /\ pc = "idle"
    /\ last = NoOp
    /\ sinceInitOk = TRUE
    /\ prev = NoPrev
    /\ threads = [t \in Threads |-> NoCall]
    /\ holder = 0

NextCorr ==
    \/ SetCorrection({1, 3}, {BLADERF_CORR_DCOFF_I, BLADERF_CORR_DCOFF_Q},
                     CorrValues(5), {0})
    \/ SetCorrection(Channels, {BLADERF_CORR_PHASE, BLADERF_CORR_GAIN},
                     CorrValues(6), {0})
    \/ SetCorrection({0, 2}, {BLADERF_CORR_DCOFF_I, BLADERF_CORR_DCOFF_Q},
                     RxDcoffValues, {0})
    \/ SetCorrection({0}, {BLADERF_CORR_DCOFF_I}, {8}, FailAtsCorr)
    \/ SetCorrection({1, 3}, {BLADERF_CORR_DCOFF_I, BLADERF_CORR_DCOFF_Q},
                     OffGridValues, {0})
    \/ \E ch \in Channels, corr \in Corrections :
          JustSet(ch, corr) /\ GetCorrection({ch}, {corr}, {0})
    \/ Untouched
          /\ GetCorrection({0}, {BLADERF_CORR_DCOFF_I}, FailAtsCorr)
    \/ Return([op : {"set_correction"}, ch : 0 .. 15,
               x : (0 - 8192) .. 8191])

SpecCorr == InitCorr /\ [][NextCorr]_vars

(***************************************************************************)
(* Correction properties.                                                  *)
(***************************************************************************)
(* get_correction returned right after a successful set_correction of the  *)
(* same channel and kind.                                                  *)
GetAfterSetCorr ==
    /\ Returned("get_correction") /\ last.status = 0 /\ last.args = "ok"
    /\ prev.op = "set_correction" /\ prev.ch = last.ch

(* The scale factors of the single-register kinds.                         *)
ClaimShift(corr) ==
    IF corr \in {BLADERF_CORR_DCOFF_I, BLADERF_CORR_DCOFF_Q} THEN 5 ELSE 6

(* C19: for phase, gain and TX DC offset corrections on every channel and  *)
(* in both bands, a value that is a multiple of 2^shift (shift 5 for TX DC *)
(* offsets, 6 for phase and gain) with |v| < 2^(shift + 7) is read back    *)
(* exactly by the get_correction that follows its set_correction.          *)
C19_CorrRoundTrip ==
    (/\ GetAfterSetCorr
     /\ ~IsRxDcoff(CellCh(last.ch), CellCorr(last.ch))
     /\ prev.x % Pow2(ClaimShift(CellCorr(last.ch))) = 0
     /\ prev.x < Pow2(ClaimShift(CellCorr(last.ch)) + 7)
     /\ 0 - prev.x < Pow2(ClaimShift(CellCorr(last.ch)) + 7))
        => last.val = prev.x

C19_Witness ==
    /\ GetAfterSetCorr
    /\ last.ch = Cell(3, BLADERF_CORR_DCOFF_Q)
    /\ last.pre.phy.tx_port = TXB
    /\ prev.x = 0 - 4064 /\ last.val = 0 - 4064

(* C20: for RX DC offset corrections (I and Q) on both RX channels and in  *)
(* both bands, whatever the two packed registers held before, a multiple   *)
(* of 8 in [-4096, 4088] is read back exactly by the get_correction that   *)
(* follows its set_correction.                                             *)
C20_RxDcoffRoundTrip ==
    (/\ GetAfterSetCorr
     /\ IsRxDcoff(CellCh(last.ch), CellCorr(last.ch))
     /\ prev.x % 8 = 0 /\ prev.x >= 0 - 4096 /\ prev.x <= 4088)
        => last.val = prev.x

(* RX channel 2, DC-Q, 512 set and 8704 read back.                         *)
C20_Example ==
    /\ GetAfterSetCorr
    /\ last.ch = Cell(2, BLADERF_CORR_DCOFF_Q)
    /\ prev.x = 512 /\ last.val = 8704

(* The same round trip on the cells other than RX channel 2 DC-Q.          *)
C20_OtherCells ==
    last.ch # Cell(2, BLADERF_CORR_DCOFF_Q) => C20_RxDcoffRoundTrip

(* The force bit of a channel and kind in the band the active port selects,*)
(* and the register it lives in.                                           *)
ForceReg(ch) == IF _is_tx(ch) THEN "REG_TX_FORCE_BITS" ELSE "REG_FORCE_BITS"

ForceBitOf(b, ch, corr) ==
    ad9361_correction_force_bit[SubChannel(ch) + 1][corr + 1][
        BoolIndex(IF _is_tx(ch) THEN b.phy.tx_port = TXA
                  ELSE b.phy.rx_port = A_BALANCED)]

(* get_correction returned after the set_correction of a TX DC offset.     *)
TxDcoffReadBack ==
    /\ GetAfterSetCorr
    /\ CellCh(last.ch) \in {1, 3}
    /\ CellCorr(last.ch) \in {BLADERF_CORR_DCOFF_I, BLADERF_CORR_DCOFF_Q}

(* C21 as stated: a TX DC offset that is not a multiple of 2^5 is read     *)
(* back as the nearest multiple of 2^5 (at most 2^4 away), and its force   *)
(* bit is set in the TX force-bits register.                               *)
C21_NearestMultiple ==
    (/\ TxDcoffReadBack
     /\ prev.x % 32 # 0 /\ prev.x > 0 - 4064 /\ prev.x < 4064)
        => /\ last.val % 32 = 0
           /\ (last.val - prev.x) * 2 <= 32
           /\ (prev.x - last.val) * 2 <= 32
           /\ TestBit(phy.regs["REG_TX_FORCE_BITS"],
                      ForceBitOf(last.pre, CellCh(last.ch),
                                 CellCorr(last.ch)))

(* C21: a TX DC offset v in [-4096, 4095] is read back as the largest      *)
(* multiple of 2^5 that is not above v (+100 as +96, +120 as +96 too), and *)
(* after the set the force bit of the channel, kind and band is set in the *)
(* TX force-bits register.                                                 *)
C21_RoundsDown ==
    (/\ TxDcoffReadBack
     /\ prev.x >= 0 - 4096 /\ prev.x <= 4095)
        => /\ last.val = 32 * (prev.x \div 32)
           /\ TestBit(phy.regs["REG_TX_FORCE_BITS"],
                      ForceBitOf(last.pre, CellCh(last.ch),
                                 CellCorr(last.ch)))

(* TX1 DC-I set to +100 and read back as +96, with its force bit set.       *)
C21_Witness ==
    /\ TxDcoffReadBack
    /\ last.ch = Cell(1, BLADERF_CORR_DCOFF_I)
    /\ prev.x = 100 /\ last.val = 96
    /\ TestBit(phy.regs["REG_TX_FORCE_BITS"],
               ForceBitOf(last.pre, 1, BLADERF_CORR_DCOFF_I))

(* +120 is read back as +96 although +128 is nearer.                       *)
C21_Example ==
    /\ TxDcoffReadBack
    /\ last.ch = Cell(1, BLADERF_CORR_DCOFF_I)
    /\ prev.x = 120 /\ last.val = 96

(***************************************************************************)
(* RF ports.  The remaining port ids of enum rx_port_sel, in the order of  *)
(* bladerf2_rx_port_map, and the two name tables.                          *)
(***************************************************************************)
A_N == 3
A_P == 4
B_N == 5
B_P == 6
C_N == 7
C_P == 8
TX_MON1 == 9
TX_MON2 == 10
TX_MON1_2 == 11

PortEntry(name, id) == [name |-> name, id |-> id]

bladerf2_rx_port_map ==
    << PortEntry("A_BALANCED", A_BALANCED),
       PortEntry("B_BALANCED", B_BALANCED),
       PortEntry("C_BALANCED", C_BALANCED),
       PortEntry("A_N", A_N),
       PortEntry("A_P", A_P),
       PortEntry("B_N", B_N),
       PortEntry("B_P", B_P),
       PortEntry("C_N", C_N),
       PortEntry("C_P", C_P),
       PortEntry("TX_MON1", TX_MON1),
       PortEntry("TX_MON2", TX_MON2),
       PortEntry("TX_MON1_2", TX_MON1_2) >>

bladerf2_tx_port_map ==
    << PortEntry("TXA", TXA),
       PortEntry("TXB", TXB) >>

PortMap(ch) ==
    IF _is_tx(ch) THEN bladerf2_tx_port_map ELSE bladerf2_rx_port_map

(* A lookup of the name in both tables, whatever the direction.            *)
bladerf2_set_rf_port_AnyTable(w, ch, port, failAt) ==
    IF CHECK_BOARD_STATE(w, STATE_INITIALIZED)
    THEN Ret(w, BLADERF_ERR_NOT_INIT)
    ELSE LET Hit(e) == e.name = port
             both == bladerf2_tx_port_map \o bladerf2_rx_port_map
             i == FirstIndex(both, Hit)
         IN  IF i = 0 THEN Ret(w, BLADERF_ERR_INVAL)
             ELSE TryAd(ad9361_set_rf_port(w, _is_tx(ch), both[i].id,
                                           failAt), Done)

(* port_id stays UINT32_MAX when no entry has the name: index 0 here.      *)
bladerf2_set_rf_port(w, ch, port, failAt) ==
    IF CHECK_BOARD_STATE(w, STATE_INITIALIZED)
    THEN Ret(w, BLADERF_ERR_NOT_INIT)
    ELSE LET Hit(e) == e.name = port
             i == FirstIndex(PortMap(ch), Hit)
         IN  IF i = 0 THEN Ret(w, BLADERF_ERR_INVAL)
             ELSE TryAd(ad9361_set_rf_port(w, _is_tx(ch), PortMap(ch)[i].id,
                                           failAt), Done)

(* The name goes out through *port; "unknown" when no entry has the id.    *)
PortNameOf(r, ch) ==
    LET Hit(e) == e.id = r.val
        i == FirstIndex(PortMap(ch), Hit)
    IN  IF i = 0 THEN RetVal(r.w, BLADERF_ERR_UNEXPECTED, "unknown")
        ELSE RetVal(r.w, 0, PortMap(ch)[i].name)

bladerf2_get_rf_port(w, ch, port_null, failAt) ==
    IF CHECK_BOARD_STATE(w, STATE_INITIALIZED)
    THEN Ret(w, BLADERF_ERR_NOT_INIT)
    ELSE TryAd(ad9361_get_rf_port(w, _is_tx(ch), failAt), LAMBDA r :
             IF port_null THEN RetVal(r.w, 0, "") ELSE PortNameOf(r, ch))

(***************************************************************************)
(* The port operations.                                                    *)
(***************************************************************************)
MaxFailAtPort == 1
FailAtsPort == 0 .. MaxFailAtPort

PortNames(map) == {map[i].name : i \in 1 .. Len(map)}

PortNameInputs ==
    PortNames(bladerf2_rx_port_map) \cup PortNames(bladerf2_tx_port_map)
        \cup {"RX"}

SetRfPort(chs, ports, fails) ==
    /\ pc = "idle" /\ opened = "open"
    /\ \E ch \in chs, port \in ports, failAt \in fails :
         LET r == bladerf2_set_rf_port(World, ch, port, failAt)
         IN  /\ Commit(r)
             /\ last' = Op("set_rf_port", ch, port, "ok", r)
             /\ UNCHANGED <<opened, sinceInitOk>>

GetRfPort(chs, fails) ==
    /\ pc = "idle" /\ opened = "open"
    /\ \E ch \in chs, port_null \in BOOLEAN, failAt \in fails :
         LET r == bladerf2_get_rf_port(World, ch, port_null, failAt)
         IN  /\ Commit(r)
             /\ last' = Op("get_rf_port", ch, "",
                           IF port_null THEN "null_ptr" ELSE "ok", r)
             /\ UNCHANGED <<opened, sinceInitOk>>

(* An opened device whose board is one of boards.                          *)
InitBoards(boards, params) ==
    /\ opened = "open"
    /\ \E w \in boards :
          /\ state = w.state
          /\ capabilities = w.capabilities
          /\ phy = w.phy
          /\ sync = w.sync
          /\ rffe = w.rffe
          /\ fpga_configured = w.fpga_configured
          /\ lock = w.lock
    /\ ad9361_init_params = params
    /\ pc = "idle"
    /\ last = NoOp
    /\ sinceInitOk = TRUE
    /\ prev = NoPrev
    /\ threads = [t \in Threads |-> NoCall]
    /\ holder = 0

(* The boards the port operations start on: as open leaves them, and with  *)
(* a front end that holds port ids outside the two tables.                 *)
PortBoards ==
    {[OpenedBoard(0) EXCEPT !.phy.rx_port = rx, !.phy.tx_port = tx] :
        rx \in {A_BALANCED, TX_MON1_2 + 1}, tx \in {TXA, TXB + 1}}

(* As Return, for calls whose argument x is a name: the call is tracked    *)
(* when it is one of ops on one of chs.                                    *)
ReturnNamed(ops, chs) ==
    /\ pc = "returned"
    /\ pc' = "idle"
    /\ last' = NoOp
    /\ prev' = IF last.status = 0 /\ last.op \in ops /\ last.ch \in chs
               THEN [op |-> last.op, ch |-> last.ch, x |-> last.x]
               ELSE NoPrev
    /\ UNCHANGED <<opened, state, capabilities, phy, sync, rffe,
                   fpga_configured, lock, ad9361_init_params, sinceInitOk,
                   threads, holder>>

InitPort == InitBoards(PortBoards, CorrParams)

NextPort ==
    \/ SetRfPort({0, 1}, PortNameInputs, {0})
    \/ SetRfPort({2, 3}, {"B_BALANCED", "TXB"}, {0})
    \/ SetRfPort({0, 1}, {"A_N", "TXB"}, FailAtsPort \ {0})
    \/ GetRfPort(Channels, {0})
    \/ GetRfPort({0, 1}, FailAtsPort \ {0})
    \/ ReturnNamed({"set_rf_port"}, Channels)

SpecPort == InitPort /\ [][NextPort]_vars

(***************************************************************************)
(* Port properties.                                                        *)
(***************************************************************************)
IssuedAny(calls, fns) == \E i \in 1 .. Len(calls) : calls[i].fn \in fns

SetPortFns == {"ad9361_set_tx_rf_port_output", "ad9361_set_rx_rf_port_input"}

PortIds(map) == {map[i].id : i \in 1 .. Len(map)}

(* C26: on an initialized board, set_rf_port with a name that is not in    *)
(* the table of the channel's direction returns BLADERF_ERR_INVAL and      *)
(* sends no port command to the front end; get_rf_port returns             *)
(* BLADERF_ERR_UNEXPECTED when the front end reports an id that is in no   *)
(* entry of the direction's table; and get_rf_port after a successful      *)
(* set_rf_port of the same direction returns the name that was set.        *)
C26_RfPortNames ==
    /\ (/\ Returned("set_rf_port")
        /\ last.pre.state = STATE_INITIALIZED
        /\ last.x \notin PortNames(PortMap(last.ch)))
           => /\ last.status = BLADERF_ERR_INVAL
              /\ ~IssuedAny(last.calls, SetPortFns)
              /\ phy = last.pre.phy
    /\ (/\ Returned("get_rf_port") /\ last.args = "ok"
        /\ last.pre.state = STATE_INITIALIZED
        /\ PortOf(last.pre, last.ch % 2) \notin PortIds(PortMap(last.ch)))
           => last.status = BLADERF_ERR_UNEXPECTED
    /\ (/\ Returned("get_rf_port") /\ last.args = "ok" /\ last.status = 0
        /\ prev.op = "set_rf_port" /\ prev.ch % 2 = last.ch % 2)
           => last.val = prev.x

(* "C_N" set on RX and read back.                                          *)
C26_Witness ==
    /\ Returned("get_rf_port") /\ last.args = "ok" /\ last.status = 0
    /\ prev.op = "set_rf_port" /\ prev.ch = 0 /\ last.ch = 0
    /\ prev.x = "C_N" /\ last.val = "C_N"

(* A TX name refused on an RX channel.                                     *)
C26_OtherDirection ==
    /\ Returned("set_rf_port") /\ last.ch = 0 /\ last.x = "TXB"
    /\ last.status = BLADERF_ERR_INVAL /\ last.calls = <<>>

(* A port id outside the table reported by the front end.                  *)
C26_UnknownId ==
    /\ Returned("get_rf_port") /\ last.ch = 1 /\ last.args = "ok"
    /\ last.pre.phy.tx_port = TXB + 1
    /\ last.status = BLADERF_ERR_UNEXPECTED /\ last.val = "unknown"

(***************************************************************************)
(* Sequences of corrections.  A few cells are set over and over, in any    *)
(* order, with one value; the RX port is balanced or not.                  *)
(***************************************************************************)
SetCorrectionNext(chs, corrs, values, fails) ==
    /\ pc = "idle" /\ opened = "open"
    /\ \E ch \in chs, corr \in corrs, value \in values, failAt \in fails :
         LET r == bladerf2_set_correction(World, ch, corr, value, failAt)
         IN  /\ Commit(r)
             /\ last' = Op("set_correction", Cell(ch, corr), value, "ok", r)
             /\ UNCHANGED <<opened, sinceInitOk>>

(* A channel that is none of RX(0), TX(0), RX(1), TX(1).                   *)
InvalidChannel == 4

ForceValues == {100}

(* Boards with the RX port set to A_N and to TX_MON1.                      *)
UnbalancedBoards ==
    {bladerf2_set_rf_port(OpenedBoard(p), BLADERF_RX, name, 0).w :
        p \in PriorContents, name \in {"A_N", "TX_MON1"}}

RxBalanced == phy.rx_port \in {A_BALANCED, B_BALANCED, C_BALANCED}

InitForce ==
    InitBoards({OpenedBoard(p) : p \in PriorContents}
                   \cup {EnabledBoard(p) : p \in PriorContents}
                   \cup UnbalancedBoards, CorrParams)

NextForce ==
    \/ SetCorrectionNext({1}, {BLADERF_CORR_DCOFF_I, BLADERF_CORR_DCOFF_Q,
                              BLADERF_CORR_PHASE}, ForceValues, {0})
    \/ SetCorrectionNext({3}, {BLADERF_CORR_DCOFF_I}, ForceValues, {0})
    \/ SetCorrectionNext({0}, {BLADERF_CORR_GAIN}, ForceValues, {0})
    \/ SetCorrectionNext({2}, {BLADERF_CORR_DCOFF_Q}, ForceValues, {0})
    \/ SetCorrectionNext({InvalidChannel}, {BLADERF_CORR_PHASE}, ForceValues,
                         {0})
    \/ RxBalanced /\ SetCorrectionNext({2}, {BLADERF_CORR_DCOFF_Q},
                                       ForceValues, FailAtsCorr \ {0})
    \/ GetCorrection({0, 1, 2}, {BLADERF_CORR_DCOFF_Q, BLADERF_CORR_GAIN},
                     {0})
    \/ GetCorrection({InvalidChannel}, {BLADERF_CORR_PHASE}, {0})
    \/ Return([op : {"set_correction"}, ch : 0 .. 19, x : ForceValues])

SpecForce == InitForce /\ [][NextForce]_vars

ForceRegs == {"REG_TX_FORCE_BITS", "REG_FORCE_BITS"}

(* A step in which set_correction runs and succeeds.                       *)
SetCorrectionSucceeds ==
    /\ pc = "idle" /\ pc' = "returned"
    /\ last'.op = "set_correction" /\ last'.status = 0

(* C22: a successful set_correction sets the force bit of its channel,     *)
(* kind and band in the force-bits register of its direction and leaves    *)
(* every other bit of that register, and the other force-bits register,    *)
(* as they were; and no step of any sequence of set_correction and         *)
(* get_correction calls clears a force bit.                                *)
C22_ForceBitsOnlyGrow ==
    [][/\ \A reg \in ForceRegs, b \in 0 .. 7 :
             TestBit(phy.regs[reg], b) => TestBit(phy'.regs[reg], b)
       /\ SetCorrectionSucceeds =>
            /\ \A b \in 0 .. 7 :
                 TestBit(phy'.regs[ForceReg(CellCh(last'.ch))], b)
                     <=> \/ TestBit(phy.regs[ForceReg(CellCh(last'.ch))], b)
                         \/ b = ForceBitOf(Board(World), CellCh(last'.ch),
                                           CellCorr(last'.ch))
            /\ \A reg \in ForceRegs \ {ForceReg(CellCh(last'.ch))} :
                 phy'.regs[reg] = phy.regs[reg]]_vars

(* A second correction in a row has set a force bit that was clear, in a   *)
(* register that already had other bits set and keeps them.                *)
C22_Witness ==
    /\ Returned("set_correction") /\ last.status = 0
    /\ prev.op = "set_correction" /\ prev.ch # last.ch
    /\ ~TestBit(last.pre.phy.regs[ForceReg(CellCh(last.ch))],
                ForceBitOf(last.pre, CellCh(last.ch), CellCorr(last.ch)))
    /\ TestBit(phy.regs[ForceReg(CellCh(last.ch))],
               ForceBitOf(last.pre, CellCh(last.ch), CellCorr(last.ch)))
    /\ last.pre.phy.regs[ForceReg(CellCh(last.ch))] # 0
    /\ phy.regs[ForceReg(CellCh(last.ch))]
           > last.pre.phy.regs[ForceReg(CellCh(last.ch))]

CorrectionReturned ==
    /\ pc = "returned" /\ last.op \in {"set_correction", "get_correction"}
    /\ last.args = "ok" /\ last.pre.state = STATE_INITIALIZED

WroteNoRegister ==
    /\ ~IssuedAny(last.calls, {"ad9361_spi_write"})
    /\ phy.regs = last.pre.phy.regs

(* C23: on an initialized board, get_correction and set_correction on an   *)
(* RX channel whose active port is none of A_BALANCED, B_BALANCED and      *)
(* C_BALANCED return BLADERF_ERR_UNSUPPORTED, and on an invalid channel    *)
(* BLADERF_ERR_INVAL; in both cases no register is written.                *)
C23_UnsupportedPort ==
    /\ (/\ CorrectionReturned
        /\ CellCh(last.ch) \in {0, 2}
        /\ last.pre.phy.rx_port \notin {A_BALANCED, B_BALANCED, C_BALANCED})
           => last.status = BLADERF_ERR_UNSUPPORTED /\ WroteNoRegister
    /\ (CorrectionReturned /\ CellCh(last.ch) \notin Channels)
           => last.status = BLADERF_ERR_INVAL /\ WroteNoRegister

(* set_correction refused on RX(1) with the port at A_N.                   *)
C23_Witness ==
    /\ CorrectionReturned /\ last.op = "set_correction"
    /\ CellCh(last.ch) = 2 /\ last.pre.phy.rx_port = A_N
    /\ last.status = BLADERF_ERR_UNSUPPORTED /\ WroteNoRegister

(* get_correction refused on an invalid channel.                           *)
C23_InvalidChannel ==
    /\ CorrectionReturned /\ last.op = "get_correction"
    /\ CellCh(last.ch) = InvalidChannel
    /\ last.status = BLADERF_ERR_INVAL /\ last.calls = <<>>

(***************************************************************************)
(* Sample rate and bandwidth (Hz).                                         *)
(***************************************************************************)
bladerf2_sample_rate_range == Range(2083334, 61440000, 1, 1, 1)
bladerf2_bandwidth_range == Range(200000, 56000000, 1, 1, 1)

(* Front end: the sampling frequency of a direction is kept as set; the    *)
(* RF bandwidth is kept as the front end realises it, a multiple of its    *)
(* granularity.                                                            *)
ad9361_set_sampling_freq(w, tx, rate, failAt) ==
    IF Fail(w, failAt)
    THEN Ret(Issue(w, Call(IF tx THEN "ad9361_set_tx_sampling_freq"
                           ELSE "ad9361_set_rx_sampling_freq", rate, 0)),
             PhyErr)
    ELSE Ret([Issue(w, Call(IF tx THEN "ad9361_set_tx_sampling_freq"
                            ELSE "ad9361_set_rx_sampling_freq", rate, 0))
                 EXCEPT !.phy.rate[IF tx THEN BLADERF_TX ELSE BLADERF_RX] =
                            rate], 0)

ad9361_get_sampling_freq(w, tx, failAt) ==
    IF Fail(w, failAt)
    THEN Ret(Issue(w, Call(IF tx THEN "ad9361_get_tx_sampling_freq"
                           ELSE "ad9361_get_rx_sampling_freq", 0, 0)),
             PhyErr)
    ELSE RetVal(Issue(w, Call(IF tx THEN "ad9361_get_tx_sampling_freq"
                              ELSE "ad9361_get_rx_sampling_freq", 0, 0)), 0,
                w.phy.rate[IF tx THEN BLADERF_TX ELSE BLADERF_RX])

ad9361_set_rf_bandwidth(w, tx, bandwidth, failAt) ==
    IF Fail(w, failAt)
    THEN Ret(Issue(w, Call(IF tx THEN "ad9361_set_tx_rf_bandwidth"
                           ELSE "ad9361_set_rx_rf_bandwidth", bandwidth, 0)),
             PhyErr)
    ELSE Ret([Issue(w, Call(IF tx THEN "ad9361_set_tx_rf_bandwidth"
                            ELSE "ad9361_set_rx_rf_bandwidth", bandwidth, 0))
                 EXCEPT !.phy.bw[IF tx THEN BLADERF_TX ELSE BLADERF_RX] =
                            (bandwidth \div w.phy.grain) * w.phy.grain], 0)

ad9361_get_rf_bandwidth(w, tx, failAt) ==
    IF Fail(w, failAt)
    THEN Ret(Issue(w, Call(IF tx THEN "ad9361_get_tx_rf_bandwidth"
                           ELSE "ad9361_get_rx_rf_bandwidth", 0, 0)),
             PhyErr)
    ELSE RetVal(Issue(w, Call(IF tx THEN "ad9361_get_tx_rf_bandwidth"
                              ELSE "ad9361_get_rx_rf_bandwidth", 0, 0)), 0,
                w.phy.bw[IF tx THEN BLADERF_TX ELSE BLADERF_RX])

bladerf2_get_sample_rate(w, ch, failAt) ==
    IF CHECK_BOARD_STATE(w, STATE_INITIALIZED)
    THEN Ret(w, BLADERF_ERR_NOT_INIT)
    ELSE TryAd(ad9361_get_sampling_freq(w, _is_tx(ch), failAt), LAMBDA r :
             RetVal(r.w, 0, r.val))

bladerf2_set_sample_rate(w, ch, rate, actual_null, failAt) ==
    IF CHECK_BOARD_STATE(w, STATE_INITIALIZED)
    THEN Ret(w, BLADERF_ERR_NOT_INIT)
    ELSE IF ~_is_within_range(bladerf2_sample_rate_range, rate)
    THEN Ret(w, BLADERF_ERR_RANGE)
    ELSE TryAd(ad9361_set_sampling_freq(w, _is_tx(ch), rate, failAt),
               LAMBDA r :
                   IF actual_null THEN Ret(r.w, 0)
                   ELSE bladerf2_get_sample_rate(r.w, ch, failAt))

bladerf2_get_bandwidth(w, ch, bandwidth_null, failAt) ==
    IF bandwidth_null THEN Ret(w, BLADERF_ERR_INVAL)
    ELSE IF CHECK_BOARD_STATE(w, STATE_INITIALIZED)
    THEN Ret(w, BLADERF_ERR_NOT_INIT)
    ELSE TryAd(ad9361_get_rf_bandwidth(w, _is_tx(ch), failAt), LAMBDA r :
             RetVal(r.w, 0, r.val))

(* A set_bandwidth that hands back the clamped value without asking the    *)
(* front end.                                                              *)
bladerf2_set_bandwidth_TrustClamped(w, ch, bandwidth, actual_null, failAt) ==
    IF CHECK_BOARD_STATE(w, STATE_INITIALIZED)
    THEN Ret(w, BLADERF_ERR_NOT_INIT)
    ELSE TryAd(ad9361_set_rf_bandwidth(w, _is_tx(ch),
                   _clamp_to_range(bladerf2_bandwidth_range, bandwidth),
                   failAt), LAMBDA r :
                   IF actual_null THEN Ret(r.w, 0)
                   ELSE RetVal(r.w, 0,
                               _clamp_to_range(bladerf2_bandwidth_range,
                                               bandwidth)))

bladerf2_set_bandwidth(w, ch, bandwidth, actual_null, failAt) ==
    IF CHECK_BOARD_STATE(w, STATE_INITIALIZED)
    THEN Ret(w, BLADERF_ERR_NOT_INIT)
    ELSE TryAd(ad9361_set_rf_bandwidth(w, _is_tx(ch),
                   _clamp_to_range(bladerf2_bandwidth_range, bandwidth),
                   failAt), LAMBDA r :
                   IF actual_null THEN Ret(r.w, 0)
                   ELSE bladerf2_get_bandwidth(r.w, ch, FALSE, failAt))

(***************************************************************************)
(* The rate and bandwidth operations, on front ends of granularity 1 Hz    *)
(* and 1 kHz.                                                              *)
(***************************************************************************)
MaxFailAtRate == 2
FailAtsRate == 0 .. MaxFailAtRate

RateInputs == {0, 2083333, 2083334, 30720000, 61440000, 61440001}
BandwidthInputs == {0, 199999, 200000, 1500500, 56000000, 56000001}

Grains == {1, 1000}

RateBoards == {[OpenedBoard(0) EXCEPT !.phy.grain = g] : g \in Grains}

SetSampleRate(chs, rates, fails) ==
    /\ pc = "idle" /\ opened = "open"
    /\ \E ch \in chs, rate \in rates, actual_null \in BOOLEAN,
          failAt \in fails :
         LET r == bladerf2_set_sample_rate(World, ch, rate, actual_null,
                                           failAt)
         IN  /\ Commit(r)
             /\ last' = Op("set_sample_rate", ch, rate,
                           IF actual_null THEN "null_ptr" ELSE "ok", r)
             /\ UNCHANGED <<opened, sinceInitOk>>

SetBandwidth(chs, bandwidths, fails) ==
    /\ pc = "idle" /\ opened = "open"
    /\ \E ch \in chs, bandwidth \in bandwidths, actual_null \in BOOLEAN,
          failAt \in fails :
         LET r == bladerf2_set_bandwidth(World, ch, bandwidth, actual_null,
                                         failAt)
         IN  /\ Commit(r)
             /\ last' = Op("set_bandwidth", ch, bandwidth,
                           IF actual_null THEN "null_ptr" ELSE "ok", r)
             /\ UNCHANGED <<opened, sinceInitOk>>

InitRate == InitBoards(RateBoards, CorrParams)

NextRate ==
    \/ SetSampleRate({0, 1}, RateInputs, {0})
    \/ SetSampleRate({0}, {30720000}, FailAtsRate \ {0})
    \/ SetBandwidth({0, 1}, BandwidthInputs, {0})
    \/ SetBandwidth({1}, {1500500}, FailAtsRate \ {0})
    \/ Return({})

SpecRate == InitRate /\ [][NextRate]_vars

(***************************************************************************)
(* Rate and bandwidth properties.                                          *)
(***************************************************************************)
SetRateFn(ch) ==
    IF _is_tx(ch) THEN "ad9361_set_tx_sampling_freq"
    ELSE "ad9361_set_rx_sampling_freq"

SetBwFn(ch) ==
    IF _is_tx(ch) THEN "ad9361_set_tx_rf_bandwidth"
    ELSE "ad9361_set_rx_rf_bandwidth"

GetBwFn(ch) ==
    IF _is_tx(ch) THEN "ad9361_get_tx_rf_bandwidth"
    ELSE "ad9361_get_rx_rf_bandwidth"

Saturate(range, v) ==
    IF v < range.min THEN range.min
    ELSE IF v > range.max THEN range.max
    ELSE v

(* C24: on an initialized board, set_sample_rate with a rate outside       *)
(* [2083334, 61440000] sends the front end the nearest bound and does not  *)
(* return BLADERF_ERR_RANGE.                                               *)
C24_RateClamped ==
    (/\ Returned("set_sample_rate")
     /\ last.pre.state = STATE_INITIALIZED
     /\ \/ last.x < bladerf2_sample_rate_range.min
        \/ last.x > bladerf2_sample_rate_range.max)
        => /\ last.status # BLADERF_ERR_RANGE
           /\ Len(last.calls) >= 1
           /\ last.calls[1] =
                  Call(SetRateFn(last.ch),
                       Saturate(bladerf2_sample_rate_range, last.x), 0)

(* What the code does with such a rate: BLADERF_ERR_RANGE, no front-end    *)
(* call, the rate unchanged.                                               *)
C24_RateRefused ==
    (/\ Returned("set_sample_rate")
     /\ last.pre.state = STATE_INITIALIZED
     /\ \/ last.x < bladerf2_sample_rate_range.min
        \/ last.x > bladerf2_sample_rate_range.max)
        => /\ last.status = BLADERF_ERR_RANGE
           /\ last.calls = <<>>
           /\ phy = last.pre.phy

(* 61440001 Hz refused on RX(0).                                           *)
C24_Example ==
    /\ Returned("set_sample_rate") /\ last.ch = 0 /\ last.x = 61440001
    /\ last.status = BLADERF_ERR_RANGE /\ last.calls = <<>>

(* C25: on an initialized board, the first front-end call of set_bandwidth *)
(* sets the bandwidth of the channel's direction to the requested value    *)
(* saturated to [200000, 56000000]; the call succeeds unless a front-end   *)
(* call fails; and when actual is requested, the value handed back is the  *)
(* one read from the front end after the set.                              *)
C25_BandwidthClamped ==
    (Returned("set_bandwidth") /\ last.pre.state = STATE_INITIALIZED)
        => /\ Len(last.calls) >= 1
           /\ last.calls[1] =
                  Call(SetBwFn(last.ch),
                       Saturate(bladerf2_bandwidth_range, last.x), 0)
           /\ last.status \in {0, RETURN_ERROR_AD9361(PhyErr)}
           /\ (last.status = 0 /\ last.args = "ok")
                  => /\ Len(last.calls) = 2
                     /\ last.calls[2] = Call(GetBwFn(last.ch), 0, 0)
                     /\ last.val = phy.bw[last.ch % 2]

(* 1500500 Hz asked of a front end of 1 kHz granularity: it is sent        *)
(* unchanged, and actual is the 1500000 Hz the front end holds.            *)
C25_Witness ==
    /\ Returned("set_bandwidth") /\ last.status = 0 /\ last.args = "ok"
    /\ last.x = 1500500 /\ last.pre.phy.grain = 1000
    /\ last.calls[1].a = 1500500
    /\ last.val = 1500000

(* 56000001 Hz sent as 56000000 Hz, with success.                          *)
C25_Above ==
    /\ Returned("set_bandwidth") /\ last.status = 0
    /\ last.x = 56000001 /\ last.calls[1].a = 56000000

(***************************************************************************)
(* Gain control modes.                                                     *)
(***************************************************************************)
ModeEntry(brf_mode, ad9361_mode) ==
    [brf_mode |-> brf_mode, ad9361_mode |-> ad9361_mode]

bladerf2_rx_gain_mode_map ==
    << ModeEntry(BLADERF_GAIN_MGC, RF_GAIN_MGC),
       ModeEntry(BLADERF_GAIN_FASTATTACK_AGC, RF_GAIN_FASTATTACK_AGC),
       ModeEntry(BLADERF_GAIN_SLOWATTACK_AGC, RF_GAIN_SLOWATTACK_AGC),
       ModeEntry(BLADERF_GAIN_HYBRID_AGC, RF_GAIN_HYBRID_AGC) >>

(* Front end: the gain control mode of an RX sub-channel is kept as set.   *)
ad9361_set_rx_gain_control_mode(w, sub, gc_mode, failAt) ==
    IF Fail(w, failAt)
    THEN Ret(Issue(w, Call("ad9361_set_rx_gain_control_mode", sub, gc_mode)),
             PhyErr)
    ELSE Ret([Issue(w, Call("ad9361_set_rx_gain_control_mode", sub, gc_mode))
                 EXCEPT !.phy.gc_mode[sub + 1] = gc_mode], 0)

ad9361_get_rx_gain_control_mode(w, sub, failAt) ==
    IF Fail(w, failAt)
    THEN Ret(Issue(w, Call("ad9361_get_rx_gain_control_mode", sub, 0)),
             PhyErr)
    ELSE RetVal(Issue(w, Call("ad9361_get_rx_gain_control_mode", sub, 0)), 0,
                w.phy.gc_mode[sub + 1])

(* "Mode conversion" of set_gain_mode: the default stays when the mode is  *)
(* BLADERF_GAIN_DEFAULT or in no entry of the table.                       *)
GcModeOf(mode, default) ==
    LET Hit(e) == e.brf_mode = mode
        i == FirstIndex(bladerf2_rx_gain_mode_map, Hit)
    IN  IF mode = BLADERF_GAIN_DEFAULT \/ i = 0 THEN default
        ELSE bladerf2_rx_gain_mode_map[i].ad9361_mode

(* "Mode conversion" of get_gain_mode.                                     *)
BrfModeOf(gc_mode) ==
    LET Hit(e) == e.ad9361_mode = gc_mode
        i == FirstIndex(bladerf2_rx_gain_mode_map, Hit)
    IN  IF i = 0 THEN BLADERF_GAIN_DEFAULT
        ELSE bladerf2_rx_gain_mode_map[i].brf_mode

(* A set_gain_mode that takes the default of RX1 for both sub-channels.    *)
bladerf2_set_gain_mode_Rx1Default(w, ch, mode, params, failAt) ==
    IF CHECK_BOARD_STATE(w, STATE_INITIALIZED)
    THEN Ret(w, BLADERF_ERR_NOT_INIT)
    ELSE IF _is_tx(ch) THEN Ret(w, BLADERF_ERR_UNSUPPORTED)
    ELSE IF ch \notin {0, 2} THEN Ret(w, BLADERF_ERR_UNSUPPORTED)
    ELSE TryAd(ad9361_set_rx_gain_control_mode(w, SubChannel(ch),
                   GcModeOf(mode, params.gc_rx1_mode), failAt), Done)

bladerf2_set_gain_mode(w, ch, mode, params, failAt) ==
    IF CHECK_BOARD_STATE(w, STATE_INITIALIZED)
    THEN Ret(w, BLADERF_ERR_NOT_INIT)
    ELSE IF _is_tx(ch) THEN Ret(w, BLADERF_ERR_UNSUPPORTED)
    ELSE IF ch = 0
    THEN TryAd(ad9361_set_rx_gain_control_mode(w, 0,
                   GcModeOf(mode, params.gc_rx1_mode), failAt), Done)
    ELSE IF ch = 2
    THEN TryAd(ad9361_set_rx_gain_control_mode(w, 1,
                   GcModeOf(mode, params.gc_rx2_mode), failAt), Done)
    ELSE Ret(w, BLADERF_ERR_UNSUPPORTED)

(* A get_gain_mode that hands back the front end's mode number as it is.   *)
bladerf2_get_gain_mode_Raw(w, ch, mode_null, failAt) ==
    IF CHECK_BOARD_STATE(w, STATE_INITIALIZED)
    THEN Ret(w, BLADERF_ERR_NOT_INIT)
    ELSE IF _is_tx(ch) THEN Ret(w, BLADERF_ERR_UNSUPPORTED)
    ELSE IF ch \notin {0, 2} THEN Ret(w, BLADERF_ERR_UNSUPPORTED)
    ELSE TryAd(ad9361_get_rx_gain_control_mode(w, SubChannel(ch), failAt),
               LAMBDA r : RetVal(r.w, 0, r.val))

bladerf2_get_gain_mode(w, ch, mode_null, failAt) ==
    IF CHECK_BOARD_STATE(w, STATE_INITIALIZED)
    THEN Ret(w, BLADERF_ERR_NOT_INIT)
    ELSE IF _is_tx(ch) THEN Ret(w, BLADERF_ERR_UNSUPPORTED)
    ELSE IF ch \notin {0, 2} THEN Ret(w, BLADERF_ERR_UNSUPPORTED)
    ELSE TryAd(ad9361_get_rx_gain_control_mode(w, SubChannel(ch), failAt),
               LAMBDA r :
                   IF mode_null THEN Ret(r.w, 0)
                   ELSE RetVal(r.w, 0, BrfModeOf(r.val)))

(***************************************************************************)
(* The gain mode operations, with parameter blocks whose defaults differ   *)
(* between RX1 and RX2.                                                    *)
(***************************************************************************)
MaxFailAtMode == 1
FailAtsMode == 0 .. MaxFailAtMode

(* The modes of enum bladerf_gain_mode.                                    *)
GainModes == BLADERF_GAIN_DEFAULT .. BLADERF_GAIN_HYBRID_AGC

(* The four valid channels, an even and an odd channel beyond them.        *)
ModeChannels == Channels \cup {InvalidChannel, InvalidChannel + 1}

ModeParamChoices ==
    { [CorrParams EXCEPT !.gc_rx1_mode = RF_GAIN_SLOWATTACK_AGC,
                         !.gc_rx2_mode = RF_GAIN_FASTATTACK_AGC],
      [CorrParams EXCEPT !.gc_rx1_mode = RF_GAIN_MGC,
                         !.gc_rx2_mode = RF_GAIN_HYBRID_AGC] }

SetGainMode(chs, modes, fails) ==
    /\ pc = "idle" /\ opened = "open"
    /\ \E ch \in chs, mode \in modes, failAt \in fails :
         LET r == bladerf2_set_gain_mode(World, ch, mode, ad9361_init_params,
                                         failAt)
         IN  /\ Commit(r)
             /\ last' = Op("set_gain_mode", ch, mode, "ok", r)
             /\ UNCHANGED <<opened, sinceInitOk>>

GetGainMode(chs, fails) ==
    /\ pc = "idle" /\ opened = "open"
    /\ \E ch \in chs, mode_null \in BOOLEAN, failAt \in fails :
         LET r == bladerf2_get_gain_mode(World, ch, mode_null, failAt)
         IN  /\ Commit(r)
             /\ last' = Op("get_gain_mode", ch, 0,
                           IF mode_null THEN "null_ptr" ELSE "ok", r)
             /\ UNCHANGED <<opened, sinceInitOk>>

InitMode ==
    \E params \in ModeParamChoices :
        InitBoards({bladerf2_open(BlankBoard(0), CHOOSE e \in OpenEnvsOk : TRUE,
                                  params, 0).w}, params)

NextMode ==
    \/ SetGainMode(ModeChannels, GainModes, FailAtsMode)
    \/ GetGainMode(ModeChannels, FailAtsMode)
    \/ Return([op : {"set_gain_mode"}, ch : ModeChannels, x : GainModes])

SpecMode == InitMode /\ [][NextMode]_vars

(***************************************************************************)
(* Gain mode properties.                                                   *)
(***************************************************************************)
GainModeFns ==
    {"ad9361_set_rx_gain_control_mode", "ad9361_get_rx_gain_control_mode"}

(* The default mode of an RX channel in the parameter block.               *)
DefaultGcMode(ch) ==
    IF ch = 0 THEN ad9361_init_params.gc_rx1_mode
    ELSE ad9361_init_params.gc_rx2_mode

TableModes ==
    {bladerf2_rx_gain_mode_map[i].brf_mode :
         i \in 1 .. Len(bladerf2_rx_gain_mode_map)}

(* The front-end mode the table gives for a mode.                          *)
TableGcMode(mode) ==
    (CHOOSE e \in {bladerf2_rx_gain_mode_map[i] :
                      i \in 1 .. Len(bladerf2_rx_gain_mode_map)} :
         e.brf_mode = mode).ad9361_mode

SetModeOnRx ==
    /\ Returned("set_gain_mode") /\ last.pre.state = STATE_INITIALIZED
    /\ last.ch \in {0, 2}

(* C27 as stated: set_gain_mode with BLADERF_GAIN_DEFAULT on RX(0) or      *)
(* RX(1) issues no gain-control-mode command to the front end, and any     *)
(* other mode of the table is translated through the table and sent.       *)
C27_DefaultIssuesNothing ==
    /\ (SetModeOnRx /\ last.x = BLADERF_GAIN_DEFAULT)
           => ~IssuedAny(last.calls, GainModeFns)
    /\ (SetModeOnRx /\ last.x \in TableModes)
           => last.calls = << Call("ad9361_set_rx_gain_control_mode",
                                   SubChannel(last.ch),
                                   TableGcMode(last.x)) >>

(* C27: set_gain_mode with BLADERF_GAIN_DEFAULT on RX(0) or RX(1) sends    *)
(* the front end one ad9361_set_rx_gain_control_mode command that carries  *)
(* the sub-channel's default mode from the parameter block (gc_rx1_mode    *)
(* for RX(0), gc_rx2_mode for RX(1)); any other mode of the table is       *)
(* translated through the table and sent in the same way.                  *)
C27_DefaultFromParams ==
    /\ (SetModeOnRx /\ last.x = BLADERF_GAIN_DEFAULT)
           => /\ last.calls = << Call("ad9361_set_rx_gain_control_mode",
                                      SubChannel(last.ch),
                                      DefaultGcMode(last.ch)) >>
              /\ last.status = 0
                     => phy.gc_mode[SubChannel(last.ch) + 1]
                            = DefaultGcMode(last.ch)
    /\ (SetModeOnRx /\ last.x \in TableModes)
           => last.calls = << Call("ad9361_set_rx_gain_control_mode",
                                   SubChannel(last.ch),
                                   TableGcMode(last.x)) >>

(* The default of RX(1) sent to a front end that was in another mode, with *)
(* RX(0)'s default being a different one.                                  *)
C27_Witness ==
    /\ SetModeOnRx /\ last.ch = 2 /\ last.x = BLADERF_GAIN_DEFAULT
    /\ last.status = 0
    /\ last.pre.phy.gc_mode[2] = RF_GAIN_MGC
    /\ phy.gc_mode[2] = RF_GAIN_FASTATTACK_AGC
    /\ ad9361_init_params.gc_rx1_mode = RF_GAIN_SLOWATTACK_AGC

(* C28: on an initialized board, set_gain_mode and get_gain_mode on a TX   *)
(* channel or on any channel other than RX(0) and RX(1) return             *)
(* BLADERF_ERR_UNSUPPORTED without a gain-control call to the front end;   *)
(* and get_gain_mode on RX(0) or RX(1) right after a successful            *)
(* set_gain_mode of a mode of the table on that channel returns that mode. *)
C28_GainModeRxOnly ==
    /\ (/\ pc = "returned" /\ last.op \in {"set_gain_mode", "get_gain_mode"}
        /\ last.pre.state = STATE_INITIALIZED
        /\ last.ch \notin {0, 2})
           => /\ last.status = BLADERF_ERR_UNSUPPORTED
              /\ last.calls = <<>>
              /\ phy = last.pre.phy
    /\ (/\ Returned("get_gain_mode") /\ last.status = 0 /\ last.args = "ok"
        /\ prev.op = "set_gain_mode" /\ prev.ch = last.ch
        /\ prev.x \in TableModes)
           => last.val = prev.x

(* Hybrid set on RX(1) and read back.                                      *)
C28_Witness ==
    /\ Returned("get_gain_mode") /\ last.status = 0 /\ last.args = "ok"
    /\ prev.op = "set_gain_mode" /\ prev.ch = 2 /\ last.ch = 2
    /\ prev.x = BLADERF_GAIN_HYBRID_AGC
    /\ last.val = BLADERF_GAIN_HYBRID_AGC

(* set_gain_mode refused on TX(0) and on channel 4.                        *)
C28_Refused ==
    /\ Returned("set_gain_mode") /\ last.ch \in {1, InvalidChannel}
    /\ last.status = BLADERF_ERR_UNSUPPORTED /\ last.calls = <<>>

(***************************************************************************)
(* Named gain stages.                                                      *)
(***************************************************************************)
StageInfo(name, range) == [name |-> name, range |-> range]

bladerf2_rx_gain_stages ==
    << StageInfo("full", Range(0 - 10, 77, 1, 1, 1)),
       StageInfo("digital", Range(0, 31, 1, 1, 1)) >>

bladerf2_tx_gain_stages ==
    << StageInfo("dsa", Range(0 - 89750, 0, 250, 1, 1000)) >>

(* Front end: the composite gain reading of RX channel rx_id (1 or 2).     *)
ad9361_get_rx_gain(w, rx_id, failAt) ==
    IF Fail(w, failAt)
    THEN Ret(Issue(w, Call("ad9361_get_rx_gain", rx_id, 0)), PhyErr)
    ELSE RetVal(Issue(w, Call("ad9361_get_rx_gain", rx_id, 0)), 0,
                [gain_db |-> w.phy.rx_gain[rx_id - 1], digital_gain |-> 0])

bladerf2_set_gain_stage(w, ch, stage_null, stage, gain, failAt) ==
    IF stage_null THEN Ret(w, BLADERF_ERR_INVAL)
    ELSE IF CHECK_BOARD_STATE(w, STATE_INITIALIZED)
    THEN Ret(w, BLADERF_ERR_NOT_INIT)
    ELSE IF _is_tx(ch) /\ stage = "dsa"
    THEN bladerf2_set_gain(w, ch, gain, failAt)
    ELSE IF ~_is_tx(ch) /\ stage = "full"
    THEN bladerf2_set_gain(w, ch, gain, failAt)
    ELSE Ret(w, 0)

(* A get_gain_stage that stores 0 when it does not know the stage.         *)
bladerf2_get_gain_stage_Zeroed(w, ch, stage_null, stage, gain_null, gain_prior, failAt) ==
    IF stage_null \/ gain_null THEN Ret(w, BLADERF_ERR_INVAL)
    ELSE IF CHECK_BOARD_STATE(w, STATE_INITIALIZED)
    THEN Ret(w, BLADERF_ERR_NOT_INIT)
    ELSE IF _is_tx(ch)
    THEN IF stage = "dsa" THEN bladerf2_get_gain(w, ch, failAt)
         ELSE RetVal(w, 0, 0)
    ELSE TryAd(ad9361_get_rx_gain(w, SubChannel(ch) + 1, failAt),
               LAMBDA rx_gain :
                   IF stage = "full"
                   THEN RetVal(rx_gain.w, 0, rx_gain.val.gain_db)
                   ELSE IF stage = "digital"
                   THEN RetVal(rx_gain.w, 0, rx_gain.val.digital_gain)
                   ELSE RetVal(rx_gain.w, 0, 0))

(* val is what *gain holds when the function returns: gain_prior, what it  *)
(* held before the call, on the paths that store nothing.                  *)
bladerf2_get_gain_stage(w, ch, stage_null, stage, gain_null, gain_prior, failAt) ==
    IF stage_null \/ gain_null THEN Ret(w, BLADERF_ERR_INVAL)
    ELSE IF CHECK_BOARD_STATE(w, STATE_INITIALIZED)
    THEN Ret(w, BLADERF_ERR_NOT_INIT)
    ELSE IF _is_tx(ch)
    THEN IF stage = "dsa" THEN bladerf2_get_gain(w, ch, failAt)
         ELSE RetVal(w, 0, gain_prior)
    ELSE TryAd(ad9361_get_rx_gain(w, SubChannel(ch) + 1, failAt),
               LAMBDA rx_gain :
                   IF stage = "full"
                   THEN RetVal(rx_gain.w, 0, rx_gain.val.gain_db)
                   ELSE IF stage = "digital"
                   THEN RetVal(rx_gain.w, 0, rx_gain.val.digital_gain)
                   ELSE RetVal(rx_gain.w, 0, gain_prior))

(***************************************************************************)
(* The gain stage operations.  last.x is the stage name with the gain      *)
(* argument of set_gain_stage, or with what the caller's gain variable     *)
(* held before get_gain_stage.                                             *)
(***************************************************************************)
MaxFailAtStage == 2
FailAtsStage == 0 .. MaxFailAtStage

StageNames == {"full", "digital", "dsa", "lna"}
StageGains == {0 - 30, 30}
GainPriors == {0, 77}
StageArgs == {"ok", "null_stage", "null_ptr"}

SetGainStage(chs, stages, gains, fails) ==
    /\ pc = "idle" /\ opened = "open"
    /\ \E ch \in chs, stage \in stages, gain \in gains,
          stage_null \in BOOLEAN, failAt \in fails :
         LET r == bladerf2_set_gain_stage(World, ch, stage_null, stage, gain,
                                          failAt)
         IN  /\ Commit(r)
             /\ last' = Op("set_gain_stage", ch,
                           [stage |-> stage, gain |-> gain],
                           IF stage_null THEN "null_stage" ELSE "ok", r)
             /\ UNCHANGED <<opened, sinceInitOk>>

GetGainStage(chs, stages, priors, fails) ==
    /\ pc = "idle" /\ opened = "open"
    /\ \E ch \in chs, stage \in stages, gain_prior \in priors,
          args \in StageArgs, failAt \in fails :
         LET r == bladerf2_get_gain_stage(World, ch, args = "null_stage",
                                          stage, args = "null_ptr",
                                          gain_prior, failAt)
         IN  /\ Commit(r)
             /\ last' = Op("get_gain_stage", ch,
                           [stage |-> stage, gain |-> gain_prior], args, r)
             /\ UNCHANGED <<opened, sinceInitOk>>

InitStage == InitBoards({OpenedBoard(0)}, CorrParams)

NextStage ==
    \/ SetGainStage(Channels, StageNames, StageGains, FailAtsStage)
    \/ GetGainStage(Channels, StageNames, GainPriors, FailAtsStage)
    \/ ReturnNamed({}, {})

SpecStage == InitStage /\ [][NextStage]_vars

(***************************************************************************)
(* Gain stage properties.                                                  *)
(***************************************************************************)
StageReturned(op) ==
    /\ Returned(op) /\ last.args = "ok"
    /\ last.pre.state = STATE_INITIALIZED

(* The stage name is in the table of the channel's direction.              *)
KnownStage(ch, stage) ==
    LET table == IF _is_tx(ch) THEN bladerf2_tx_gain_stages
                 ELSE bladerf2_rx_gain_stages
    IN  \E i \in 1 .. Len(table) : table[i].name = stage

(* The board before the call, as the world of a call of its own.           *)
PreWorld ==
    [state |-> last.pre.state, capabilities |-> last.pre.capabilities,
     phy |-> last.pre.phy, sync |-> last.pre.sync, rffe |-> last.pre.rffe,
     fpga_configured |-> last.pre.fpga_configured, lock |-> last.pre.lock,
     calls |-> <<>>, k |-> 0, nlock |-> 0]

(* set_gain_stage did what set_gain does with the same channel and gain.   *)
AsSetGain ==
    \E failAt \in FailAtsStage :
        LET r == bladerf2_set_gain(PreWorld, last.ch, last.x.gain, failAt)
        IN  /\ last.status = r.status
            /\ last.calls = r.w.calls
            /\ phy = r.w.phy

SetStageParts ==
    /\ (StageReturned("set_gain_stage")
        /\ ~KnownStage(last.ch, last.x.stage))
           => /\ last.status = 0
              /\ last.calls = <<>>
              /\ phy = last.pre.phy
    /\ (/\ StageReturned("set_gain_stage")
        /\ last.x.stage = (IF _is_tx(last.ch) THEN "dsa" ELSE "full"))
           => AsSetGain

(* C29: with a stage name unknown for the channel's direction              *)
(* set_gain_stage returns 0 and changes no gain or attenuation and         *)
(* get_gain_stage returns 0 and reports a gain of 0; TX "dsa" and RX       *)
(* "full" set_gain_stage do what set_gain does.                            *)
C29_UnknownStageZero ==
    /\ SetStageParts
    /\ (StageReturned("get_gain_stage")
        /\ ~KnownStage(last.ch, last.x.stage))
           => last.status = 0 /\ last.val = 0

(* What the code does with an unknown stage name: set_gain_stage returns 0 *)
(* without a front-end call; get_gain_stage stores nothing, so the         *)
(* caller's gain variable keeps what it held, and returns 0 (on RX after a *)
(* composite gain query whose failure is returned instead).                *)
C29_UnknownStageNoOp ==
    /\ SetStageParts
    /\ (StageReturned("get_gain_stage")
        /\ ~KnownStage(last.ch, last.x.stage))
           => /\ phy = last.pre.phy
              /\ IF _is_tx(last.ch)
                 THEN last.status = 0 /\ last.calls = <<>>
                 ELSE /\ last.calls = << Call("ad9361_get_rx_gain",
                                              SubChannel(last.ch) + 1, 0) >>
                      /\ last.status \in {0, RETURN_ERROR_AD9361(PhyErr)}
              /\ last.status = 0 => last.val = last.x.gain

(* "dsa" asked of RX(0): success, and the caller's 77 is still there.      *)
C29_Example ==
    /\ StageReturned("get_gain_stage") /\ last.ch = 0
    /\ last.x = [stage |-> "dsa", gain |-> 77]
    /\ last.status = 0 /\ last.val = 77

(* "dsa" set on TX(0) as set_gain sets it, and "dsa" ignored on RX(0).     *)
C29_Alias ==
    /\ StageReturned("set_gain_stage") /\ last.ch = 1
    /\ last.x = [stage |-> "dsa", gain |-> 0 - 30] /\ last.status = 0
    /\ phy.tx_atten[0] = 30000 /\ last.pre.phy.tx_atten[0] = 0

C29_Ignored ==
    /\ StageReturned("set_gain_stage") /\ last.ch = 0
    /\ last.x.stage = "dsa" /\ last.status = 0 /\ last.calls = <<>>

(***************************************************************************)
(* _clamp_to_range on its own: a value is clamped to one of the board's    *)
(* ranges, and the result is clamped again.                                *)
(***************************************************************************)
ClampRanges ==
    << bladerf2_sample_rate_range,
       bladerf2_bandwidth_range,
       bladerf2_rx_gain_ranges[1].gain,
       bladerf2_rx_gain_ranges[2].gain,
       bladerf2_rx_gain_ranges[3].gain,
       bladerf2_tx_gain_range >>

(* How far around each bound of a range the values are taken.              *)
ClampMargin == 12

(* The values within ClampMargin of a bound of the range (a bound taken    *)
(* as range->min * range->scale), and 0.                                   *)
ClampInputs(range) ==
    LET lo == MulScale(range.min, range)
        hi == MulScale(range.max, range)
    IN  ((lo - ClampMargin) .. (lo + ClampMargin))
            \cup ((hi - ClampMargin) .. (hi + ClampMargin)) \cup {0}

Clamp ==
    /\ pc = "idle"
    /\ \E i \in 1 .. Len(ClampRanges) :
         \E value \in ClampInputs(ClampRanges[i]) :
            LET r == RetVal(World, 0, _clamp_to_range(ClampRanges[i], value))
            IN  /\ Commit(r)
                /\ last' = Op("clamp", i, value, "ok", r)
                /\ UNCHANGED <<opened, sinceInitOk>>

ClampAgain ==
    /\ Returned("clamp")
    /\ last' = [last EXCEPT
                   !.op = "clamp_again", !.x = last.val,
                   !.val = _clamp_to_range(ClampRanges[last.ch], last.val)]
    /\ prev' = [op |-> "clamp", ch |-> last.ch, x |-> last.x]
    /\ UNCHANGED <<opened, state, capabilities, phy, sync, rffe,
                   fpga_configured, lock, ad9361_init_params, sinceInitOk,
                   threads, holder, pc>>

InitClamp == InitBoards({OpenedBoard(0)}, CorrParams)

NextClamp ==
    \/ Clamp
    \/ ClampAgain
    \/ Return({})

SpecClamp == InitClamp /\ [][NextClamp]_vars

(* C30: for the sample rate range, the bandwidth range, the three RX gain  *)
(* ranges and the TX gain range (scale 1/1000) and every integer v, the    *)
(* clamped value is in the range, it is v when v is in the range, and      *)
(* clamping it again gives the same value.                                 *)
C30_ClampIdempotent ==
    /\ Returned("clamp")
           => /\ _is_within_range(ClampRanges[last.ch], last.val)
              /\ _is_within_range(ClampRanges[last.ch], last.x)
                     => last.val = last.x
    /\ Returned("clamp_again") => last.val = last.x

(* A TX gain of -100 clamped to -89, and -89 clamped to itself.            *)
C30_Witness ==
    /\ Returned("clamp_again")
    /\ ClampRanges[last.ch] = bladerf2_tx_gain_range
    /\ prev.x = 0 - 100 /\ last.x = 0 - 89 /\ last.val = 0 - 89

(***************************************************************************)
(* Open and the FPGA.                                                      *)
(***************************************************************************)
(* The last collaborator call of the returned operation.                   *)
LastCall == last.calls[Len(last.calls)]

(* The returned open asked the backend whether the FPGA is configured and  *)
(* the backend answered.                                                   *)
FpgaAsked ==
    /\ Returned("open")
    /\ HasCall(last.calls, "is_fpga_configured")
    /\ ~(LastCall.fn = "is_fpga_configured" /\ last.status < 0)

(* open looked for an FPGA image and found none.                           *)
NoImageFound ==
    \E i \in DOMAIN last.calls :
        last.calls[i].fn = "file_find" /\ last.calls[i].b = 0

(* open handed an image to the backend, which loaded it.                   *)
ImageLoaded ==
    /\ HasCall(last.calls, "load_fpga")
    /\ ~(LastCall.fn = "load_fpga" /\ last.status # 0)

(* Board initialization was started.                                       *)
InitRan == HasCall(last.calls, "get_fpga_version")

(* C31: an open that finds the FPGA not configured and no FPGA image       *)
(* returns success without running board initialization and leaves the     *)
(* board at FirmwareLoaded; an open that finds the FPGA configured, or     *)
(* loads it, runs board initialization from FpgaLoaded: it ends            *)
(* Initialized with success when initialization succeeds, and FpgaLoaded   *)
(* with the error when it fails.  No open ends Initialized otherwise.      *)
C31_OpenWithoutFpga ==
    /\ (FpgaAsked /\ ~last.pre.fpga_configured /\ NoImageFound) =>
          /\ last.status = 0
          /\ state = STATE_FIRMWARE_LOADED
          /\ ~InitRan /\ ~HasCall(last.calls, "load_fpga")
    /\ (FpgaAsked /\ (last.pre.fpga_configured \/ ImageLoaded)) =>
          /\ InitRan
          /\ \/ last.status = 0 /\ state = STATE_INITIALIZED
             \/ last.status < 0 /\ state = STATE_FPGA_LOADED
    /\ (Returned("open") /\ state = STATE_INITIALIZED) =>
          /\ last.status = 0
          /\ FpgaAsked /\ (last.pre.fpga_configured \/ ImageLoaded)

(* An open that loaded the FPGA and whose initialization then failed at    *)
(* the front end: the board is left FpgaLoaded.                            *)
C31_Witness ==
    /\ FpgaAsked /\ ~last.pre.fpga_configured /\ ImageLoaded
    /\ LastCall.fn = "ad9361_init"
    /\ last.status < 0 /\ state = STATE_FPGA_LOADED

(* An open that found neither a configured FPGA nor an image.              *)
C31_Skipped ==
    /\ FpgaAsked /\ ~last.pre.fpga_configured /\ NoImageFound
    /\ last.status = 0 /\ state = STATE_FIRMWARE_LOADED

(* An open that found the FPGA configured and initialized the board.       *)
C31_Initialized ==
    /\ FpgaAsked /\ last.pre.fpga_configured
    /\ last.status = 0 /\ state = STATE_INITIALIZED

(***************************************************************************)
(* SpecWait: open, with its "Wait until firmware is ready" loop taken one  *)
(* iteration at a time.  While the loop runs, last.x holds i, last.val     *)
(* holds ready and last.calls the calls made so far.                       *)
(***************************************************************************)
(* What is_fw_ready answers: an error, not ready, ready.                   *)
ReadyAnswers == {BackendErr, 0, 1}

(* A loop condition that lets one more iteration through.                  *)
PollAgain_OneMore(i) == i <= max_retries

(* "i < max_retries"                                                       *)
PollAgain(i) == i < max_retries

(* The polls in a call log.                                                *)
Polls(calls) == {j \in DOMAIN calls : calls[j].fn = "is_fw_ready"}

(* The board data and the hardware become those of world w.                *)
StoreBoard(w) ==
    /\ state' = w.state
    /\ capabilities' = w.capabilities
    /\ phy' = w.phy
    /\ sync' = w.sync
    /\ rffe' = w.rffe
    /\ fpga_configured' = w.fpga_configured
    /\ lock' = w.lock

(* open up to the loop: allocate, read the firmware version, determine the *)
(* firmware capabilities, update the state.                                *)
OpenBegin(envs, fails) ==
    /\ pc = "idle" /\ opened = "closed"
    /\ \E env \in envs, failAt \in fails :
         LET fw == SimpleCall(FreshBoardData(World), "get_fw_version", 0,
                              BackendErr, failAt)
             r  == IF fw.status < 0 THEN fw
                   ELSE Ret(OpenFirmware(fw.w, [env EXCEPT !.ready_at = 0]),
                            0)
         IN  /\ StoreBoard(r.w)
             /\ pc' = IF fw.status < 0 THEN "returned" ELSE "polling"
             /\ opened' = IF fw.status < 0 THEN "failed" ELSE opened
             /\ last' = Op("open", 0, 0, "ok", r)
             /\ UNCHANGED <<ad9361_init_params, sinceInitOk, prev, threads,
                            holder>>

(* One iteration: poll; leave the loop when ready, else sleep and go on.   *)
Poll ==
    /\ pc = "polling" /\ PollAgain(last.x)
    /\ \E ready \in ReadyAnswers :
         /\ last' = [last EXCEPT
                        !.calls = Append(@, Call("is_fw_ready", last.x + 1,
                                                 IF ready = 1 THEN 1 ELSE 0)),
                        !.val = ready,
                        !.x = IF ready # 1 THEN @ + 1 ELSE @]
         /\ pc' = IF ready # 1 THEN "polling" ELSE "polled"
    /\ UNCHANGED <<opened, state, capabilities, phy, sync, rffe,
                   fpga_configured, lock, ad9361_init_params, sinceInitOk,
                   prev, threads, holder>>

(* The loop condition fails: the loop is left.                             *)
PollExit ==
    /\ pc = "polling" /\ ~PollAgain(last.x)
    /\ pc' = "polled"
    /\ UNCHANGED <<opened, state, capabilities, phy, sync, rffe,
                   fpga_configured, lock, ad9361_init_params, sinceInitOk,
                   last, prev, threads, holder>>

(* open from "if (ready != 1)" on.  The whole call is bladerf2_open in an  *)
(* environment whose first ready poll is the one the loop saw; prev keeps  *)
(* what the loop did: the number of polls and the last answer.             *)
OpenFinish(envs, fails) ==
    /\ pc = "polled"
    /\ \E env \in envs, failAt \in fails :
         LET n  == Cardinality(Polls(last.calls))
             e  == [env EXCEPT !.ready_at =
                       IF last.val = 1 THEN n ELSE max_retries + 1]
             r  == bladerf2_open([World EXCEPT !.state = last.pre.state,
                                     !.capabilities = last.pre.capabilities],
                                 e, ad9361_init_params, failAt)
         IN  /\ StoreBoard(r.w)
             /\ pc' = "returned"
             /\ opened' = IF r.status = 0 THEN "open" ELSE "failed"
             /\ last' = [Op("open", 0, 0, "ok", r) EXCEPT !.pre = last.pre]
             /\ prev' = [op |-> "polls", ch |-> last.val, x |-> n]
             /\ sinceInitOk' = (r.w.state = STATE_INITIALIZED)
             /\ UNCHANGED <<ad9361_init_params, threads, holder>>

(* Environments of the open whose wait is taken step by step.              *)
WaitEnvs ==
    {e \in OpenEnvs : /\ e.ready_at = 1 /\ e.fw_check = 0
                      /\ e.fpga_caps = {1} /\ e.version_check = 0}

(* A step of the loop.                                                     *)
WaitStep == Poll \/ PollExit

NextWait ==
    \/ OpenBegin(WaitEnvs, {0, 1})
    \/ Poll
    \/ PollExit
    \/ OpenFinish(WaitEnvs, {0, 2, 3})
    \/ Return({})

(* The thread that called open keeps running: an iteration polls, sleeps   *)
(* one second and goes on, and nothing else can block it.                  *)
SpecWait == Init /\ [][NextWait]_vars /\ WF_vars(WaitStep)

(* The wait of a returned open that got past reading the firmware version. *)
Waited == Returned("open") /\ prev.op = "polls"

WaitBounded ==
    /\ pc \in {"polling", "polled"} =>
          /\ Cardinality(Polls(last.calls)) <= max_retries
          /\ \A j \in Polls(last.calls) :
                last.calls[j].b = 1 =>
                    (pc = "polled" /\ j = Len(last.calls))
    /\ Waited =>
          /\ Polls(last.calls) # {}
          /\ Cardinality(Polls(last.calls)) = prev.x
          /\ prev.x <= max_retries
          /\ \A j \in Polls(last.calls) :
                last.calls[j].b = 1 =>
                    \A n \in Polls(last.calls) : n <= j
          /\ (\A j \in Polls(last.calls) : last.calls[j].b = 0) =>
                /\ prev.x = max_retries
                /\ last.status = BLADERF_ERR_TIMEOUT
                /\ state = STATE_FIRMWARE_LOADED
                /\ \A j \in DOMAIN last.calls :
                      last.calls[j].fn \in {"get_fw_version", "is_fw_ready"}

(* C32: the firmware-readiness wait of open terminates: readiness is       *)
(* polled at most 30 times, no poll follows one that reports ready, and    *)
(* when none of them reports ready open returns the timeout error with     *)
(* the board at FirmwareLoaded, having made no call besides reading the    *)
(* firmware version and polling (no FPGA detection, load or                *)
(* initialization); an open that has begun to wait leaves the loop.        *)
C32_WaitTerminates ==
    /\ []WaitBounded
    /\ (pc = "polling") ~> (pc = "polled")

(* An open that polled 30 times, was never told ready and timed out.       *)
C32_Witness ==
    /\ Waited /\ prev.x = max_retries /\ prev.ch # 1
    /\ last.status = BLADERF_ERR_TIMEOUT
    /\ state = STATE_FIRMWARE_LOADED

(* An open that was told ready at its 30th poll and went on.               *)
C32_LastPollReady ==
    /\ Waited /\ prev.x = max_retries /\ prev.ch = 1
    /\ last.status = 0 /\ state = STATE_INITIALIZED

(***************************************************************************)
(* Board initialization, read off the call log of open and load_fpga.      *)
(***************************************************************************)
(* The collaborator calls of a complete bladerf2_initialize, in order.     *)
InitSteps ==
    << "get_fpga_version", "version_check", "set_fpga_protocol",
       "rffe_control_write", "ina219_init", "ad9361_init",
       "ad9361_set_tx_fir_config", "ad9361_set_rx_fir_config",
       "ad9361_set_rx_fir_en_dis", "rffe_control_read",
       "rffe_control_write",
       "rffe_control_read", "ad9361_set_tx_rf_port_output",
       "rffe_control_write",
       "rffe_control_read", "ad9361_set_rx_rf_port_input",
       "rffe_control_write" >>

(* Where initialization begins in the log of the returned call.            *)
InitStart ==
    CHOOSE i \in DOMAIN last.calls : last.calls[i].fn = "get_fpga_version"

(* The calls of the returned call's initialization.                        *)
InitLog == SubSeq(last.calls, InitStart, Len(last.calls))

InitReturned ==
    /\ pc = "returned" /\ last.op \in {"open", "load_fpga"}
    /\ InitRan

(* The version check of the returned initialization found a mismatch.      *)
Mismatch ==
    \E i \in DOMAIN InitLog :
        InitLog[i].fn = "version_check" /\ InitLog[i].a < 0

(* C33: a version mismatch found by board initialization does not end it:  *)
(* with or without one, the calls of an initialization are the first calls *)
(* of the complete sequence, each made once; when none fails it makes      *)
(* them all and returns success with the board Initialized, and when one   *)
(* fails that call is its last, the error is returned and the board is     *)
(* left FpgaLoaded.                                                        *)
C33_MismatchOnlyWarns ==
    InitReturned =>
        /\ Len(InitLog) <= Len(InitSteps)
        /\ \A i \in DOMAIN InitLog : InitLog[i].fn = InitSteps[i]
        /\ last.status = 0 =>
              Len(InitLog) = Len(InitSteps) /\ state = STATE_INITIALIZED
        /\ last.status # 0 =>
              /\ last.status < 0 /\ state = STATE_FPGA_LOADED
              /\ LastCall.fn # "version_check"

(* A reload whose initialization found a mismatch and succeeded.           *)
C33_Witness ==
    /\ Returned("load_fpga") /\ InitRan /\ Mismatch
    /\ last.status = 0 /\ state = STATE_INITIALIZED

(* An initialization that found a mismatch and then failed at the current  *)
(* monitor.                                                                *)
C33_LaterFailure ==
    /\ InitReturned /\ Mismatch
    /\ LastCall.fn = "ina219_init"
    /\ last.status = BackendErr /\ state = STATE_FPGA_LOADED

(***************************************************************************)
(* Capabilities.                                                           *)
(***************************************************************************)
(* C34: from open on, no call clears a capability bit: every bit set       *)
(* before a step is set after it, and an open or load_fpga that ran board  *)
(* initialization leaves the firmware's capabilities set next to the       *)
(* FPGA's.                                                                 *)
C34_CapabilitiesGrow ==
    [][/\ capabilities \subseteq capabilities'
       /\ (/\ pc' = "returned" /\ last'.op \in {"open", "load_fpga"}
           /\ HasCall(last'.calls, "set_fpga_protocol")) =>
              (0 \in capabilities' /\ 1 \in capabilities')]_vars

(* A reload that added a capability to those the board had.                *)
C34_Witness ==
    /\ Returned("load_fpga")
    /\ last.pre.capabilities = {0, 1}
    /\ capabilities = {0, 1, 2}

(* A reload on a board that keeps a capability from an earlier load.       *)
C34_Kept ==
    /\ Returned("load_fpga") /\ last.status = 0
    /\ last.pre.capabilities = {0, 1, 2}
    /\ capabilities = {0, 1, 2}

(***************************************************************************)
(* SpecErrno: what a failing front-end call's status becomes.  Every       *)
(* caller hands the status to RETURN_ERROR_AD9361 as the front end         *)
(* returned it, under "if (status < 0)".                                   *)
(***************************************************************************)
(* Largest errno value the front end's status is drawn from.               *)
ErrnoMax == 133

(* The statuses a failing front-end call returns: -errno.                  *)
FrontEndErrors == {0 - e : e \in 1 .. ErrnoMax}

(* A front-end call returns err; its caller returns what the macro makes   *)
(* of it.                                                                  *)
ReturnErrorAd9361(errs) ==
    /\ pc = "idle"
    /\ \E err \in errs :
         LET r == RetVal(Issue(World, Call("ad9361", 0, err)),
                         RETURN_ERROR_AD9361(err), 0)
         IN  /\ Commit(r)
             /\ last' = Op("return_error_ad9361", 0, err, "ok", r)
             /\ UNCHANGED <<opened, sinceInitOk>>

InitErrno == InitBoards({OpenedBoard(0)}, CorrParams)

NextErrno ==
    \/ ReturnErrorAd9361(FrontEndErrors)
    \/ Return({})

SpecErrno == InitErrno /\ [][NextErrno]_vars

(* The driver's error for each errno, as the mapping lists them.           *)
TaxonomyOf(e) ==
    CASE e = EIO       -> BLADERF_ERR_IO
      [] e = EAGAIN    -> BLADERF_ERR_WOULD_BLOCK
      [] e = ENOMEM    -> BLADERF_ERR_MEM
      [] e = ENODEV    -> BLADERF_ERR_NODEV
      [] e = EINVAL    -> BLADERF_ERR_INVAL
      [] e = ETIMEDOUT -> BLADERF_ERR_TIMEOUT
      [] OTHER         -> BLADERF_ERR_UNEXPECTED

(* C35: a negative status -e returned by the front end is returned to the  *)
(* caller as the driver's error for e: I/O error for EIO, would-block for  *)
(* EAGAIN, out-of-memory for ENOMEM, no-device for ENODEV,                 *)
(* invalid-argument for EINVAL, timeout for ETIMEDOUT, and unexpected for  *)
(* every other code.                                                       *)
C35_ErrnoTranslated ==
    Returned("return_error_ad9361") => last.status = TaxonomyOf(0 - last.x)

(* What the code does: the mapping's cases are the positive errno values   *)
(* and the status is passed to it negative, so every front-end failure is  *)
(* returned as unexpected.                                                 *)
C35_AlwaysUnexpected ==
    Returned("return_error_ad9361") => last.status = BLADERF_ERR_UNEXPECTED

(* The front end's -EIO returned as unexpected.                            *)
C35_Example ==
    /\ Returned("return_error_ad9361")
    /\ last.x = 0 - EIO /\ last.status = BLADERF_ERR_UNEXPECTED

(* The mapping itself, applied to the errno values: the table of the       *)
(* claim.                                                                  *)
C35_TableOnPositive ==
    \A e \in 1 .. ErrnoMax : errno_ad9361_to_bladerf(e) = TaxonomyOf(e)

(***************************************************************************)
(* SpecLoad: load_fpga with images of several lengths, with and without    *)
(* BLADERF_SKIP_FPGA_SIZE_CHECK in the environment, on a board that open   *)
(* initialized and on one that open left without an FPGA.  last.ch is 1    *)
(* when the override is set.                                               *)
(***************************************************************************)
ImageLengths ==
    {0, 1048576, 2000000, FPGA_SIZE_XA4 - 1, FPGA_SIZE_XA4, FPGA_SIZE_XA4 + 1}

(* Largest index of a failing collaborator call of load_fpga tried here.   *)
MaxFailAtLoad == 3
FailAtsLoad == 0 .. MaxFailAtLoad

(* The board after an open with BLADERF_FORCE_NO_FPGA_PRESENT set.         *)
FirmwareBoard ==
    bladerf2_open([BlankBoard(0) EXCEPT !.fpga_configured = FALSE],
                  CHOOSE e \in OpenEnvsFpgaOrNot : e.no_fpga_env,
                  CorrParams, 0).w

LoadFpgaSized(lens, overrides, envs, fails) ==
    /\ pc = "idle" /\ opened = "open"
    /\ \E len \in lens, override \in overrides, env \in envs,
          failAt \in fails :
         LET r == bladerf2_load_fpga(World, len, override, env,
                                     ad9361_init_params, failAt)
         IN  /\ Commit(r)
             /\ last' = Op("load_fpga", IF override THEN 1 ELSE 0, len,
                           "ok", r)
             /\ sinceInitOk' = IF r.w.calls = <<>> THEN sinceInitOk
                               ELSE r.status = 0
             /\ UNCHANGED opened

InitLoad == InitBoards({OpenedBoard(0), FirmwareBoard}, CorrParams)

NextLoad ==
    \/ LoadFpgaSized(ImageLengths, BOOLEAN, InitEnvs, FailAtsLoad)
    \/ EraseStoredFpga({0})
    \/ Return({})

SpecLoad == InitLoad /\ [][NextLoad]_vars

(* C36: load_fpga takes an image of exactly 2,632,660 bytes, and with the  *)
(* size-check override set an image of any length, to the backend; without *)
(* the override it answers every other length with the invalid-argument    *)
(* error, without calling the backend and leaving the board and the        *)
(* hardware as they were.                                                  *)
C36_FpgaSizeChecked ==
    Returned("load_fpga") =>
        /\ (last.ch = 1 \/ last.x = FPGA_SIZE_XA4) =>
              /\ last.calls # <<>>
              /\ last.calls[1] = Call("load_fpga", last.x, 0)
              /\ last.status # BLADERF_ERR_INVAL
        /\ (last.ch = 0 /\ last.x # FPGA_SIZE_XA4) =>
              /\ last.status = BLADERF_ERR_INVAL
              /\ last.calls = <<>>
              /\ Board(World) = last.pre

(* 2,000,000 bytes refused on a board that open left at FirmwareLoaded.    *)
C36_Witness ==
    /\ Returned("load_fpga") /\ last.ch = 0 /\ last.x = 2000000
    /\ last.pre.state = STATE_FIRMWARE_LOADED
    /\ last.status = BLADERF_ERR_INVAL /\ state = STATE_FIRMWARE_LOADED

(* 2,000,000 bytes loaded with the override set.                           *)
C36_Override ==
    /\ Returned("load_fpga") /\ last.ch = 1 /\ last.x = 2000000
    /\ last.status = 0 /\ state = STATE_INITIALIZED

(* The expected length loaded without the override.                        *)
C36_Exact ==
    /\ Returned("load_fpga") /\ last.ch = 0 /\ last.x = FPGA_SIZE_XA4
    /\ last.pre.state = STATE_FIRMWARE_LOADED
    /\ last.status = 0 /\ state = STATE_INITIALIZED

(***************************************************************************)
(* SpecFrame: enable, disable, set_frequency and select_band for both      *)
(* directions on boards whose control register holds, besides what the     *)
(* driver wrote, other values in the bits the driver never writes (reset,  *)
(* AGC enable, sync, bias enables: they belong to the FPGA and the front   *)
(* end's platform layer).                                                  *)
(***************************************************************************)
ControlBits ==
    {RFFE_CONTROL_RESET_N, RFFE_CONTROL_EN_AGC, RFFE_CONTROL_SYNC_IN,
     RFFE_CONTROL_RX_BIAS_EN, RFFE_CONTROL_TX_BIAS_EN}

(* Contents of those bits: none set, reset released, the bias enables,     *)
(* all of them.                                                            *)
ControlBitValues ==
    {0,
     Pow2(RFFE_CONTROL_RESET_N),
     Pow2(RFFE_CONTROL_RX_BIAS_EN) + Pow2(RFFE_CONTROL_TX_BIAS_EN),
     Pow2(RFFE_CONTROL_RESET_N) + Pow2(RFFE_CONTROL_EN_AGC)
         + Pow2(RFFE_CONTROL_SYNC_IN) + Pow2(RFFE_CONTROL_RX_BIAS_EN)
         + Pow2(RFFE_CONTROL_TX_BIAS_EN)}

FrameBoards ==
    {[w EXCEPT !.rffe = @ + o] :
        w \in {OpenedBoard(0), EnabledBoard(0)}, o \in ControlBitValues}

(* A low-band and a high-band frequency (kHz).                             *)
FrameFreqs == {2400000, 4000000}

InitFrame == InitBoards(FrameBoards, CorrParams)

NextFrame ==
    \/ EnableModule(Directions, {0})
    \/ EnableModule({BLADERF_RX}, FailAtsEnable \ {0})
    \/ SetFrequency(Directions, FrameFreqs, {0})
    \/ SetFrequency({BLADERF_TX}, FrameFreqs, FailAtsFreq \ {0})
    \/ SelectBand(Directions, FrameFreqs, {0})
    \/ Return({})

SpecFrame == InitFrame /\ [][NextFrame]_vars

OtherDirection(dir) == IF _is_tx(dir) THEN BLADERF_RX ELSE BLADERF_TX

(* C37: a successful enable_module (enable or disable), set_frequency or   *)
(* select_band for one direction leaves the other direction's enable bit   *)
(* and antenna-switch field in the control register as they were, and      *)
(* leaves the reset, AGC enable, sync and bias enable bits as they were.   *)
C37_OtherBitsKept ==
    (/\ pc = "returned"
     /\ last.op \in {"enable_module", "set_frequency", "select_band"}
     /\ last.status = 0) =>
        /\ _is_rffe_channel_enabled(rffe, OtherDirection(last.ch))
              = _is_rffe_channel_enabled(last.pre.rffe,
                                         OtherDirection(last.ch))
        /\ SpdtOf(rffe, OtherDirection(last.ch))
              = SpdtOf(last.pre.rffe, OtherDirection(last.ch))
        /\ \A b \in ControlBits :
              TestBit(rffe, b) = TestBit(last.pre.rffe, b)

(* RX disabled while TX is enabled in the low band and all the other bits  *)
(* are set: the RX bit and field change, the rest stays.                   *)
C37_Witness ==
    /\ Returned("enable_module") /\ last.ch = BLADERF_RX /\ last.x = 0
    /\ last.status = 0
    /\ _is_rffe_channel_enabled(last.pre.rffe, BLADERF_RX)
    /\ SpdtOf(last.pre.rffe, BLADERF_RX) = RFFE_CONTROL_SPDT_LOWBAND
    /\ ~_is_rffe_channel_enabled(rffe, BLADERF_RX)
    /\ SpdtOf(rffe, BLADERF_RX) = RFFE_CONTROL_SPDT_SHUTDOWN
    /\ _is_rffe_channel_enabled(rffe, BLADERF_TX)
    /\ SpdtOf(rffe, BLADERF_TX) = RFFE_CONTROL_SPDT_LOWBAND
    /\ \A b \in ControlBits : TestBit(rffe, b)

(* TX retuned to the high band while RX is enabled in the low band.        *)
C37_TxRetuned ==
    /\ Returned("set_frequency") /\ last.ch = BLADERF_TX
    /\ last.status = 0
    /\ SpdtOf(last.pre.rffe, BLADERF_TX) = RFFE_CONTROL_SPDT_LOWBAND
    /\ SpdtOf(rffe, BLADERF_TX) = RFFE_CONTROL_SPDT_HIGHBAND
    /\ _is_rffe_channel_enabled(rffe, BLADERF_RX)
    /\ SpdtOf(rffe, BLADERF_RX) = RFFE_CONTROL_SPDT_LOWBAND
    /\ TestBit(rffe, RFFE_CONTROL_TX_BIAS_EN)

(***************************************************************************)
(* SpecBand: corrections on boards whose active ports were chosen by band  *)
(* selection: both directions enabled in the low band, in the high band,   *)
(* and retuned between the two.                                            *)
(***************************************************************************)
HighBandBoard(p) ==
    bladerf2_set_frequency(
        bladerf2_set_frequency(EnabledBoard(p), BLADERF_RX, 4000000, 0).w,
        BLADERF_TX, 4000000, 0).w

InitBand ==
    InitBoards({EnabledBoard(p) : p \in PriorContents}
                   \cup {HighBandBoard(p) : p \in PriorContents}, CorrParams)

NextBand ==
    \/ SetCorrectionNext({0, 1}, {BLADERF_CORR_PHASE}, ForceValues, {0})
    \/ SetCorrectionNext({2}, {BLADERF_CORR_DCOFF_I}, ForceValues, {0})
    \/ SetCorrectionNext({3}, {BLADERF_CORR_GAIN}, ForceValues, {0, 1})
    \/ GetCorrection(Channels, {BLADERF_CORR_DCOFF_Q, BLADERF_CORR_PHASE},
                     {0})
    \/ SetFrequency(Directions, FrameFreqs, {0})
    \/ Return({})

SpecBand == InitBand /\ [][NextBand]_vars

(* The band the band-to-port map of the direction assigns the port to.     *)
MapBandOfPort(dir, port) ==
    LET port_map == IF _is_tx(dir) THEN bladerf2_tx_band_port_map
                    ELSE bladerf2_rx_band_port_map
    IN  (CHOOSE e \in {port_map[i] : i \in DOMAIN port_map} :
             e.band # BAND_SHUTDOWN /\ e.ad9361_port = port).band

(* The first register the returned correction call read or wrote.          *)
TouchedReg ==
    LET i == CHOOSE j \in DOMAIN last.calls :
                 /\ last.calls[j].fn \in {"ad9361_spi_read",
                                          "ad9361_spi_write"}
                 /\ \A n \in 1 .. (j - 1) :
                        last.calls[n].fn \notin {"ad9361_spi_read",
                                                 "ad9361_spi_write"}
    IN  last.calls[i].a

(* The register of a channel and kind for a value of low_band.             *)
BandReg(ch, corr, low_band) ==
    IF IsRxDcoff(ch, corr) THEN RxDcoffRegs(ch, low_band, corr).reg_top
    ELSE CorrReg(ch, corr, low_band)

(* The band the returned correction call took the port for: Low when it    *)
(* used the register of low_band = true.                                   *)
CodecBand ==
    IF TouchedReg = BandReg(CellCh(last.ch), CellCorr(last.ch), TRUE)
    THEN BAND_LOW ELSE BAND_HIGH

(* A correction call that got as far as its register.                      *)
CorrectionDone ==
    /\ CorrectionReturned /\ last.status = 0
    /\ CellCh(last.ch) \in Channels

(* C38: the band a correction call derives from the active port is the     *)
(* band the band-to-port map assigns that port to: Low for B_BALANCED on   *)
(* RX and TXB on TX, High for A_BALANCED and TXA.                          *)
C38_BandAgrees ==
    CorrectionDone =>
        CodecBand = MapBandOfPort(CellCh(last.ch),
                                  PortOf(last.pre, CellCh(last.ch)))

(* What the code does: low_band is true for A_BALANCED and TXA, the ports  *)
(* the map assigns to the High band, and false for B_BALANCED and TXB.     *)
C38_BandInverted ==
    CorrectionDone =>
        /\ PortOf(last.pre, CellCh(last.ch)) \in {A_BALANCED, B_BALANCED}
        /\ CodecBand # MapBandOfPort(CellCh(last.ch),
                                     PortOf(last.pre, CellCh(last.ch)))
        /\ CodecBand = BAND_LOW
              <=> PortOf(last.pre, CellCh(last.ch)) = A_BALANCED

(* RX enabled at 2.4 GHz, in the Low band on B_BALANCED: the phase         *)
(* correction of RX(0) goes to the register of input A.                    *)
C38_Example ==
    /\ CorrectionDone /\ last.op = "set_correction"
    /\ last.ch = Cell(0, BLADERF_CORR_PHASE)
    /\ last.pre.phy.rx_lo = 2400000
    /\ SpdtOf(last.pre.rffe, BLADERF_RX) = RFFE_CONTROL_SPDT_LOWBAND
    /\ last.pre.phy.rx_port = B_BALANCED
    /\ TouchedReg = "REG_RX1_INPUT_A_PHASE_CORR"
    /\ CodecBand = BAND_HIGH

(***************************************************************************)
(* SpecAlias: corrections of every single-register cell, on boards whose   *)
(* ports stay fixed: as open leaves them (A_BALANCED, TXA), enabled in the *)
(* low band (B_BALANCED, TXB) and in the high band (A_BALANCED, TXA).      *)
(***************************************************************************)
AliasValues == {192}

InitAlias ==
    InitBoards({OpenedBoard(p) : p \in PriorContents}
                   \cup {EnabledBoard(p) : p \in PriorContents}
                   \cup {HighBandBoard(p) : p \in PriorContents}, CorrParams)

NextAlias ==
    \/ SetCorrectionNext(Channels, {BLADERF_CORR_PHASE, BLADERF_CORR_GAIN},
                         AliasValues, {0})
    \/ SetCorrectionNext({1, 3}, {BLADERF_CORR_DCOFF_I}, AliasValues, {0, 1})
    \/ GetCorrection({0, 2}, {BLADERF_CORR_PHASE, BLADERF_CORR_GAIN}, {0})
    \/ Return({})

SpecAlias == InitAlias /\ [][NextAlias]_vars

(* The (channel, kind) pairs of the single-register map.                   *)
SingleCells ==
    {Cell(ch, corr) : ch \in Channels,
                      corr \in {BLADERF_CORR_PHASE, BLADERF_CORR_GAIN}}
    \cup {Cell(ch, corr) : ch \in {1, 3},
                           corr \in {BLADERF_CORR_DCOFF_I,
                                     BLADERF_CORR_DCOFF_Q}}

AllCells == {Cell(ch, corr) : ch \in Channels, corr \in Corrections}

(* What get_correction returns for a cell on a board.                      *)
Reading(w, cell) ==
    bladerf2_get_correction(w, CellCh(cell), CellCorr(cell), FALSE, 0).val

(* set_correction of a single-register cell returned with success.         *)
SingleSetDone ==
    /\ Returned("set_correction") /\ last.status = 0
    /\ last.ch \in SingleCells

(* The cells whose reading the returned set_correction changed.            *)
Disturbed ==
    {cell \in AllCells \ {last.ch} :
         Reading(PreWorld, cell) # Reading(World, cell)}

(* C39: with a fixed active port, set_correction of a phase or gain cell,  *)
(* or of a TX DC offset cell, leaves the value get_correction returns for  *)
(* every other (channel, kind) pair unchanged, the registers of distinct   *)
(* cells being distinct.                                                   *)
C39_OtherCellsKept == SingleSetDone => Disturbed = {}

(* What the code does: with A_BALANCED active, gain and phase of one RX    *)
(* channel are the same register, and setting one changes the other; no   *)
(* other cell is disturbed.                                                *)
C39_GainPhaseAliased ==
    SingleSetDone =>
        LET ch   == CellCh(last.ch)
            corr == CellCorr(last.ch)
            twin == Cell(ch, IF corr = BLADERF_CORR_GAIN
                             THEN BLADERF_CORR_PHASE ELSE BLADERF_CORR_GAIN)
        IN  IF /\ ~_is_tx(ch) /\ last.pre.phy.rx_port = A_BALANCED
               /\ corr \in {BLADERF_CORR_PHASE, BLADERF_CORR_GAIN}
            THEN /\ Disturbed \subseteq {twin}
                 /\ CorrReg(ch, BLADERF_CORR_GAIN, TRUE)
                        = CorrReg(ch, BLADERF_CORR_PHASE, TRUE)
                 /\ Reading(World, twin) = Reading(World, last.ch)
            ELSE Disturbed = {}

(* The gain of RX(0) set with A_BALANCED active: the phase of RX(0) reads  *)
(* back the gain just written.                                             *)
C39_Example ==
    /\ SingleSetDone /\ last.ch = Cell(0, BLADERF_CORR_GAIN)
    /\ last.pre.phy.rx_port = A_BALANCED
    /\ HasCall(last.calls, "ad9361_spi_write")
    /\ Disturbed = {Cell(0, BLADERF_CORR_PHASE)}
    /\ Reading(World, Cell(0, BLADERF_CORR_PHASE)) = 192

(***************************************************************************)
(* RX DC offset fields.                                                    *)
(***************************************************************************)
(* The bit positions of the 10-bit field in the top and the bottom         *)
(* register, as the layout comments of the packing code draw them.         *)
FieldBits(ch, is_q) ==
    IF ch = 0
    THEN IF ~is_q THEN [top |-> 0 .. 3, bot |-> 2 .. 7]
         ELSE [top |-> 0 .. 1, bot |-> 0 .. 7]
    ELSE IF ~is_q THEN [top |-> 0 .. 7, bot |-> 0 .. 1]
         ELSE [top |-> 0 .. 5, bot |-> 4 .. 7]

(* Two register bytes agree on every bit outside a field.                  *)
SameOutside(old, new, field) ==
    \A b \in (0 .. 7) \ field : Bits(old, b, 1) = Bits(new, b, 1)

RxDcoffCells ==
    {Cell(ch, corr) : ch \in {0, 2},
                      corr \in {BLADERF_CORR_DCOFF_I, BLADERF_CORR_DCOFF_Q}}

(* set_correction of an RX DC offset returned with success.                *)
RxDcoffSetDone ==
    /\ Returned("set_correction") /\ last.status = 0
    /\ last.ch \in RxDcoffCells

(* The two registers of the returned RX DC offset set_correction.          *)
SetRegs ==
    RxDcoffRegs(CellCh(last.ch),
                CorrLowBand(PreWorld, CellCh(last.ch), 0).val,
                CellCorr(last.ch))

(* The returned set_correction kept the bits outside its field.            *)
OutsideKept ==
    LET field == FieldBits(CellCh(last.ch),
                           CellCorr(last.ch) = BLADERF_CORR_DCOFF_Q)
    IN  /\ SameOutside(last.pre.phy.regs[SetRegs.reg_top],
                       phy.regs[SetRegs.reg_top], field.top)
        /\ SameOutside(last.pre.phy.regs[SetRegs.reg_bot],
                       phy.regs[SetRegs.reg_bot], field.bot)

(* The other RX DC offset cells whose reading the returned set_correction  *)
(* changed.                                                                *)
DisturbedRx == Disturbed \cap RxDcoffCells

(* C40: an RX DC offset set_correction changes only the bits of its own    *)
(* 10-bit field in the two registers it writes, so every other RX DC       *)
(* offset cell reads back what it read before.                             *)
C40_FieldOnly == RxDcoffSetDone => OutsideKept /\ DisturbedRx = {}

(* What the code does: the two kinds of RX(0) keep every bit outside the   *)
(* field and every other cell; DC-I of RX(1) keeps the outside bits, but   *)
(* its two bottom bits lie inside the top register of DC-Q of RX(1); DC-Q  *)
(* of RX(1) writes both registers whole.                                   *)
C40_FirstChannelOnly ==
    RxDcoffSetDone =>
        /\ CellCh(last.ch) = 0 => OutsideKept /\ Disturbed = {}
        /\ last.ch = Cell(2, BLADERF_CORR_DCOFF_I) =>
              /\ OutsideKept
              /\ Disturbed \subseteq {Cell(2, BLADERF_CORR_DCOFF_Q)}
        /\ last.ch = Cell(2, BLADERF_CORR_DCOFF_Q) =>
              /\ phy.regs[SetRegs.reg_top]
                     = RxDcoffPack(2, TRUE, U16(last.x \div 8), 0, 0).top
              /\ phy.regs[SetRegs.reg_bot]
                     = RxDcoffPack(2, TRUE, U16(last.x \div 8), 0, 0).bot
              /\ Disturbed \subseteq {Cell(2, BLADERF_CORR_DCOFF_I),
                                      Cell(0, BLADERF_CORR_DCOFF_I)}

(* DC-Q of RX(1) set to 0 over registers that hold 0xA5: the low four bits *)
(* of the shared bottom register are cleared, and DC-I of RX(0) and of     *)
(* RX(1) read back other values.                                           *)
C40_Example ==
    /\ RxDcoffSetDone /\ last.ch = Cell(2, BLADERF_CORR_DCOFF_Q)
    /\ last.x = 0
    /\ last.pre.phy.regs[SetRegs.reg_bot] = 165
    /\ phy.regs[SetRegs.reg_bot] = 0
    /\ ~OutsideKept
    /\ Disturbed = {Cell(0, BLADERF_CORR_DCOFF_I),
                    Cell(2, BLADERF_CORR_DCOFF_I)}

(* DC-I of RX(0) set: a case the claim holds in.                           *)
C40_FirstChannel ==
    /\ RxDcoffSetDone /\ last.ch = Cell(0, BLADERF_CORR_DCOFF_I)
    /\ last.x = 8
    /\ last.pre.phy.regs[SetRegs.reg_top] # phy.regs[SetRegs.reg_top]
    /\ OutsideKept /\ Disturbed = {}

====
